---------------------------- MODULE Spec2Model ----------------------------
(***************************************************************************)
(* Prompt Editor v2.0: the disk mirror (app/utils/filesystem.py) and the   *)
(* folder/template request handlers (app/routes.py).                       *)
(*                                                                         *)
(* Text is a sequence of one-character strings, so that the sanitizers,    *)
(* the ".md" suffix and the metadata header are computed character by      *)
(* character.  A path is the sequence of its components below the user's   *)
(* home directory's Prompt_Editor/templates; << >> is that root itself.    *)
(***************************************************************************)
EXTENDS Integers, Sequences, FiniteSets, TLC

VARIABLES
    folders,        \* rows of the folders table, in the order query.all() returns them
    templates,      \* rows of the templates table, in query order
    dirs,           \* directories on disk (set of paths)
    files,          \* regular files on disk: path -> text
    now,            \* the wall clock, in seconds
    pc,             \* per run of sync_database_to_filesystem: where it stands
    idx,            \* per run: index of the next row of the current loop
    folder_paths,   \* per run: the local dict folder id -> directory path
    runs,           \* number of rebuilds started so far
    kills,          \* number of rebuilds interrupted so far
    raised,         \* per run: an exception has left sync_database_to_filesystem
    completed,      \* number of rebuilds that ran to their end (returned or raised)
    response,       \* the answer to the last request
    call            \* the last call of a function of app/utils: name, argument, result

vars == <<folders, templates, dirs, files, now, pc, idx, folder_paths,
          runs, kills, raised, completed, response, call>>

-----------------------------------------------------------------------------
(* Bounds of the model *)

MaxFolders == 2         \* rows of the folders table, of any name
MaxTemplates == 2       \* rows of the templates table
DeepFolders == 4        \* rows of the folders table, all of one name
SmallTemplates == 1     \* rows of the templates table beside DeepFolders
                        \* folders, or where rebuilds repeat or interleave
RouteFolders == 1       \* rows of the folders table where templates are requested
MaxNameLen == 3         \* characters of a name given to a sanitizer, chosen freely
MaxDocLen == 4          \* characters of a Markdown document, chosen freely
MaxPathLen == 4         \* characters of a name that is a path, chosen freely
MaxStatLen == 4         \* characters of a template content, chosen freely
MaxWords == 400         \* words of the longest template content
MaxClock == 1           \* seconds the clock may advance
MaxRuns == 2            \* rebuilds started one after the other
MaxKills == 1           \* rebuilds interrupted

MaxFilenameLength == 100    \* export.py: "if len(filename) > 100"

-----------------------------------------------------------------------------
(* Text *)

None == 0

RECURSIVE Concat(_)
Concat(ss) == IF ss = << >> THEN << >> ELSE Head(ss) \o Concat(Tail(ss))

Digit(n) == <<"0", "1", "2", "3", "4", "5", "6", "7", "8", "9">>[n + 1]

UpperCase == <<"A","B","C","D","E","F","G","H","I","J","K","L","M",
               "N","O","P","Q","R","S","T","U","V","W","X","Y","Z">>
LowerCase == <<"a","b","c","d","e","f","g","h","i","j","k","l","m",
               "n","o","p","q","r","s","t","u","v","w","x","y","z">>

LowerChar(c) ==
    IF \E i \in 1..26 : UpperCase[i] = c
    THEN LowerCase[CHOOSE i \in 1..26 : UpperCase[i] = c]
    ELSE c

lower(s) == [i \in 1..Len(s) |-> LowerChar(s[i])]

\* datetime.now().strftime('%Y%m%d_%H%M%S'): the clock counts the seconds of
\* one minute of 2026-01-01.
strftime(t) ==
    <<"2","0","2","6","0","1","0","1","_","0","0","0","0">>
        \o <<Digit(t \div 10), Digit(t % 10)>>

\* datetime.now().isoformat()
isoformat(t) ==
    <<"2","0","2","6","-","0","1","-","0","1","T","0","0",":","0","0",":">>
        \o <<Digit(t \div 10), Digit(t % 10)>>

InvalidChars == {"<", ">", ":", "\"", "/", "\\", "|", "?", "*"}

\* re.sub(r'[<>:"/\\|?*]', '_', s)
ReplaceInvalid(s) ==
    [i \in 1..Len(s) |-> IF s[i] \in InvalidChars THEN "_" ELSE s[i]]

\* the characters of s at the positions keep, in their order
Pick(s, keep) ==
    [j \in 1..Cardinality(keep) |->
        s[CHOOSE i \in keep : Cardinality({k \in keep : k <= i}) = j]]

\* re.sub(r'_{2,}', '_', s): of every run of underscores one is left
CollapseUnderscores(s) ==
    Pick(s, { i \in 1..Len(s) : ~(s[i] = "_" /\ i > 1 /\ s[i - 1] = "_") })

\* str.lstrip(chars): from the first character that is not in cs
lstrip(s, cs) ==
    IF \A i \in 1..Len(s) : s[i] \in cs THEN << >>
    ELSE SubSeq(s, CHOOSE i \in 1..Len(s) :
                       s[i] \notin cs /\ \A k \in 1..(i - 1) : s[k] \in cs,
                Len(s))

\* str.rstrip(chars): up to the last character that is not in cs
rstrip(s, cs) ==
    IF \A i \in 1..Len(s) : s[i] \in cs THEN << >>
    ELSE SubSeq(s, 1, CHOOSE i \in 1..Len(s) :
                          s[i] \notin cs /\ \A k \in (i + 1)..Len(s) : s[k] \in cs)

\* str.strip(chars)
strip(s, cs) == rstrip(lstrip(s, cs), cs)

reserved_names ==
    { <<"c","o","n">>, <<"p","r","n">>, <<"a","u","x">>, <<"n","u","l">> }
    \cup { <<"c","o","m", Digit(d)>> : d \in 1..9 }
    \cup { <<"l","p","t", Digit(d)>> : d \in 1..9 }

\* a sanitize_folder_name that compares with the reserved names as written
sanitize_folder_name_case_sensitive(name, t) ==
    LET sanitized ==
            strip(CollapseUnderscores(ReplaceInvalid(name)), {"_", " ", "."})
    IN  IF sanitized = << >> \/ sanitized \in reserved_names
        THEN <<"f","o","l","d","e","r","_">> \o strftime(t)
        ELSE sanitized

sanitize_folder_name(name, t) ==
    LET sanitized ==
            strip(CollapseUnderscores(ReplaceInvalid(name)), {"_", " ", "."})
    IN  IF sanitized = << >> \/ lower(sanitized) \in reserved_names
        THEN <<"f","o","l","d","e","r","_">> \o strftime(t)
        ELSE sanitized

\* a sanitize_template_filename that leaves the dots at the ends
sanitize_template_filename_dots_kept(title, t) ==
    LET sanitized ==
            strip(CollapseUnderscores(ReplaceInvalid(title)), {"_", " "})
    IN  IF sanitized = << >>
        THEN <<"t","e","m","p","l","a","t","e","_">> \o strftime(t)
        ELSE sanitized

sanitize_template_filename(title, t) ==
    LET sanitized ==
            strip(CollapseUnderscores(ReplaceInvalid(title)), {"_", " ", "."})
    IN  IF sanitized = << >>
        THEN <<"t","e","m","p","l","a","t","e","_">> \o strftime(t)
        ELSE sanitized

-----------------------------------------------------------------------------
(* The file system *)

Root == << >>

NoPath == << >>            \* an Optional[Path] argument left at None
Some(p) == <<p>>           \* an Optional[Path] argument that was given

Parent(p) == SubSeq(p, 1, Len(p) - 1)
Prefixes(p) == { SubSeq(p, 1, k) : k \in 0..Len(p) }

NoFiles == << >>

\* Path.mkdir(parents=True, exist_ok=True): raises when the path or one of its
\* ancestors exists and is no directory; otherwise the path and every missing
\* ancestor are directories afterwards.
mkdir(d, f, p) ==
    IF \E q \in Prefixes(p) : q \in DOMAIN f
    THEN [ok |-> FALSE, dirs |-> d]
    ELSE [ok |-> TRUE, dirs |-> d \cup Prefixes(p)]

\* open(p, 'w') followed by write(text): raises when p is a directory or its
\* parent is none; otherwise p holds exactly text afterwards.
write_file(d, f, p, text) ==
    IF p \in d \/ Parent(p) \notin d
    THEN [ok |-> FALSE, files |-> f]
    ELSE [ok |-> TRUE, files |-> (p :> text) @@ f]

\* The home directory exists: creating the root never raises.
get_user_templates_dir(d) == [path |-> Root, dirs |-> d \cup {Root}]

get_folder_path(d, folder_name, parent_path, t) ==
    LET base == IF parent_path = NoPath
                THEN get_user_templates_dir(d)
                ELSE [path |-> parent_path[1], dirs |-> d]
    IN  [path |-> base.path \o <<sanitize_folder_name(folder_name, t)>>,
         dirs |-> base.dirs]

create_folder_on_disk(d, f, folder_name, parent_path, t) ==
    LET fp == get_folder_path(d, folder_name, parent_path, t)
        m  == mkdir(fp.dirs, f, fp.path)
    IN  [ok |-> m.ok, path |-> fp.path, dirs |-> m.dirs]

DotMd == <<".", "m", "d">>

metadata(title, t) ==
    Concat(<< <<"-","-","-","\n">>,
              <<"t","i","t","l","e",":"," ">>, title, <<"\n">>,
              <<"c","r","e","a","t","e","d",":"," ">>, isoformat(t), <<"\n">>,
              <<"-","-","-","\n">>,
              <<"\n">> >>)

save_template_to_disk(d, f, title, content, folder_path, t) ==
    LET base == IF folder_path = NoPath
                THEN get_user_templates_dir(d)
                ELSE [path |-> folder_path[1], dirs |-> d]
        filename == sanitize_template_filename(title, t) \o DotMd
        file_path == base.path \o <<filename>>
        full_content == metadata(title, t) \o content
        w == write_file(base.dirs, f, file_path, full_content)
    IN  [ok |-> w.ok, path |-> file_path, dirs |-> base.dirs, files |-> w.files]

-----------------------------------------------------------------------------
(* sync_database_to_filesystem, one loop iteration at a time.  A machine     *)
(* state st is [dirs, files, fp, ok]: the disk, the local dict folder_paths  *)
(* and whether no exception has been raised.                                 *)

\* lines 245-248: one iteration of "for folder in folders" (root folders)
RootIter(st, folder, t) ==
    IF folder.parent_id = None
    THEN LET r == create_folder_on_disk(st.dirs, st.files, folder.name, NoPath, t)
         IN  IF r.ok
             THEN [st EXCEPT !.dirs = r.dirs,
                             !.fp = (folder.id :> r.path) @@ st.fp]
             ELSE [st EXCEPT !.dirs = r.dirs, !.ok = FALSE]
    ELSE st

\* lines 251-255: one iteration of "for folder in folders" (child folders)
ChildIter(st, folder, t) ==
    IF folder.parent_id /= None /\ folder.parent_id \in DOMAIN st.fp
    THEN LET parent_path == st.fp[folder.parent_id]
             r == create_folder_on_disk(st.dirs, st.files, folder.name,
                                        Some(parent_path), t)
         IN  IF r.ok
             THEN [st EXCEPT !.dirs = r.dirs,
                             !.fp = (folder.id :> r.path) @@ st.fp]
             ELSE [st EXCEPT !.dirs = r.dirs, !.ok = FALSE]
    ELSE st

\* a rebuild that files every template under the root
TemplateTarget_root_only(d, fp, template) == get_user_templates_dir(d)

\* lines 260-263: the directory a template is written to
TemplateTarget(d, fp, template) ==
    IF template.folder_id /= None /\ template.folder_id \in DOMAIN fp
    THEN [path |-> fp[template.folder_id], dirs |-> d]
    ELSE get_user_templates_dir(d)

\* a rebuild that passes over the templates whose folder it does not know
TemplateIter_skip_unmapped(st, template, t) ==
    IF template.folder_id /= None /\ template.folder_id \in DOMAIN st.fp
    THEN LET r == save_template_to_disk(st.dirs, st.files, template.title,
                                        template.content,
                                        Some(st.fp[template.folder_id]), t)
         IN  [st EXCEPT !.dirs = r.dirs, !.files = r.files, !.ok = r.ok]
    ELSE st

\* lines 259-265: one iteration of "for template in templates"
TemplateIter(st, template, t) ==
    LET target == TemplateTarget(st.dirs, st.fp, template)
        r == save_template_to_disk(target.dirs, st.files, template.title,
                                   template.content, Some(target.path), t)
    IN  [st EXCEPT !.dirs = r.dirs, !.files = r.files, !.ok = r.ok]

-----------------------------------------------------------------------------
(* Inputs *)

\* Folder names: "A?" is cleaned to "A", "T.md" is kept as it is (and is the
\* file name of a template titled "T"), "Con" is a reserved device name.
FolderNames == { <<"A", "?">>, <<"T", ".", "m", "d">>, <<"C", "o", "n">> }
\* Titles: "T" is kept as it is, "?" is cleaned to the empty string.
Titles == { <<"T">>, <<"?">> }

\* the content of the i-th template row: two lines, distinct per row
ContentOf(i) == <<"#", " ", Digit(i), "\n", "z">>

\* Tables of at most nf folders: ids are given in insertion order, and a
\* parent_id is nothing (None), the id of a row, or an id no row has.
FolderTables(nf, names) ==
    UNION { { [i \in 1..n |-> [id |-> i, name |-> nm[i], parent_id |-> pr[i]]] :
                nm \in [1..n -> names], pr \in [1..n -> 0..(n + 1)] } :
            n \in 0..nf }

\* Tables of at most nt templates over a folders table of n rows.
TemplateTables(nt, n) ==
    UNION { { [i \in 1..m |-> [id |-> i, title |-> ti[i], content |-> ContentOf(i),
                               folder_id |-> fo[i], is_favorite |-> FALSE]] :
                ti \in [1..m -> Titles], fo \in [1..m -> 0..(n + 1)] } :
            m \in 0..nt }

Runners == {1, 2}
Running == {"roots", "children", "templates"}
NoResponse ==
    [op |-> "none", code |-> 0, status |-> "none", data |-> << >>,
     warning |-> FALSE]
NoCall == [fn |-> "none", arg |-> << >>, result |-> << >>]

-----------------------------------------------------------------------------
(* The rebuild as a process *)

\* where a run stands once the loop at `phase` has reached row i: loops over
\* no (further) rows are left at once
RECURSIVE Position(_, _)
Position(phase, i) ==
    IF phase = "roots" /\ i > Len(folders) THEN Position("children", 1)
    ELSE IF phase = "children" /\ i > Len(folders) THEN Position("templates", 1)
    ELSE IF phase = "templates" /\ i > Len(templates) THEN <<"done", 0>>
    ELSE <<phase, i>>

Machine(r) == [dirs |-> dirs, files |-> files, fp |-> folder_paths[r], ok |-> TRUE]

\* one iteration of the loop the run stands in
Iterate(r) ==
    IF pc[r] = "roots" THEN RootIter(Machine(r), folders[idx[r]], now)
    ELSE IF pc[r] = "children" THEN ChildIter(Machine(r), folders[idx[r]], now)
    ELSE TemplateIter(Machine(r), templates[idx[r]], now)

Active(r) == pc[r] \in Running /\ ~raised[r]
Ended(r) == pc[r] = "done" \/ raised[r]

\* initialize_filesystem_sync calls sync_database_to_filesystem
Begin(r) ==
    /\ runs' = runs + 1
    /\ pc' = [pc EXCEPT ![r] = Position("roots", 1)[1]]
    /\ idx' = [idx EXCEPT ![r] = Position("roots", 1)[2]]
    /\ folder_paths' = [folder_paths EXCEPT ![r] = << >>]
    /\ raised' = [raised EXCEPT ![r] = FALSE]
    /\ completed' = IF Position("roots", 1)[1] = "done" THEN completed + 1 ELSE completed
    /\ UNCHANGED <<folders, templates, dirs, files, now, kills, response, call>>

SyncStart(r) ==
    /\ pc[r] = "idle"
    /\ Begin(r)

\* the application is started again
SyncAgain(r) ==
    /\ Ended(r) \/ pc[r] = "killed"
    /\ runs < MaxRuns
    /\ Begin(r)

\* An exception leaves sync_database_to_filesystem at once (no loop catches
\* it); the caller initialize_filesystem_sync logs it.
SyncStep(r) ==
    /\ Active(r)
    /\ LET st == Iterate(r)
           nxt == Position(pc[r], idx[r] + 1)
       IN  /\ dirs' = st.dirs
           /\ files' = st.files
           /\ folder_paths' = [folder_paths EXCEPT ![r] = st.fp]
           /\ raised' = [raised EXCEPT ![r] = ~st.ok]
           /\ pc' = [pc EXCEPT ![r] = IF st.ok THEN nxt[1] ELSE pc[r]]
           /\ idx' = [idx EXCEPT ![r] = IF st.ok THEN nxt[2] ELSE idx[r]]
           /\ completed' = IF ~st.ok \/ nxt[1] = "done"
                           THEN completed + 1 ELSE completed
    /\ UNCHANGED <<folders, templates, now, runs, kills, response, call>>

\* the process is stopped between two steps of a rebuild
Kill(r) ==
    /\ Active(r)
    /\ kills < MaxKills
    /\ pc' = [pc EXCEPT ![r] = "killed"]
    /\ kills' = kills + 1
    /\ UNCHANGED <<folders, templates, dirs, files, now, idx, folder_paths,
                   runs, raised, completed, response, call>>

Tick ==
    /\ now < MaxClock
    /\ now' = now + 1
    /\ UNCHANGED <<folders, templates, dirs, files, pc, idx, folder_paths,
                   runs, kills, raised, completed, response, call>>

\* no function of app/utils has been called on its own
NoCallYet == call = NoCall

\* a fresh disk, no rebuild started, and the tables as given
Fresh ==
    /\ dirs = {}
    /\ files = NoFiles
    /\ now = 0
    /\ pc = [r \in Runners |-> "idle"]
    /\ idx = [r \in Runners |-> 0]
    /\ folder_paths = [r \in Runners |-> << >>]
    /\ runs = 0
    /\ kills = 0
    /\ raised = [r \in Runners |-> FALSE]
    /\ completed = 0
    /\ response = NoResponse
    /\ NoCallYet

(* One rebuild of a fresh disk *)
Init ==
    /\ folders \in FolderTables(MaxFolders, FolderNames)
    /\ templates \in TemplateTables(MaxTemplates, Len(folders))
    /\ Fresh

Next ==
    \/ SyncStart(1)
    \/ SyncStep(1)

Spec == Init /\ [][Next]_vars

(* One rebuild of a fresh disk: more folders, all of one name *)
InitDeep ==
    /\ folders \in FolderTables(DeepFolders, { <<"A", "?">> })
    /\ templates \in TemplateTables(SmallTemplates, Len(folders))
    /\ Fresh

SpecDeep == InitDeep /\ [][Next]_vars

(* Rebuilds one after the other, possibly interrupted, as the clock advances *)
InitRerun ==
    /\ folders \in FolderTables(MaxFolders, FolderNames)
    /\ templates \in TemplateTables(SmallTemplates, Len(folders))
    /\ Fresh

NextRerun ==
    \/ SyncStart(1)
    \/ SyncStep(1)
    \/ SyncAgain(1)
    \/ Kill(1)
    \/ Tick

SpecRerun == InitRerun /\ [][NextRerun]_vars

(* Two rebuilds of the same root directory, interleaved step by step *)
InitConc ==
    /\ folders \in FolderTables(MaxFolders, FolderNames)
    /\ templates \in TemplateTables(MaxTemplates, Len(folders))
    /\ Fresh

NextConc ==
    \/ \E r \in Runners : SyncStart(r)
    \/ \E r \in Runners : SyncStep(r)

SpecConc == InitConc /\ [][NextConc]_vars

-----------------------------------------------------------------------------
(* The HTTP handlers.  A JSON body is a record of its keys; a key holds << >>  *)
(* when the body lacks it and <<v>> when the body gives it the value v.       *)

Opt(S) == { << >> } \cup { <<x>> : x \in S }

\* What a request may carry.  A folder name is one of FolderNames or the
\* empty string, a title one of Titles or the empty string; a parent_id or
\* folder_id is null (None), the id of a row that is or may come to be, or an
\* id no row gets.
RequestNames == FolderNames \cup { << >> }
RequestTitles == Titles \cup { << >> }
RequestContents == { ContentOf(1), ContentOf(2) }

FolderBodies ==
    [name : Opt(RequestNames), parent_id : Opt(0..(MaxFolders + 1))]
TemplateBodies ==
    [title : Opt(RequestTitles), content : Opt(RequestContents),
     folder_id : Opt(0..(RouteFolders + 1))]

\* where the row of that id stands in the table
RowOf(table, id) == CHOOSE k \in 1..Len(table) : table[k].id = id

\* Model.query.get(id): the row of that id, if there is one
query_get(table, id) ==
    IF \E k \in 1..Len(table) : table[k].id = id
    THEN <<table[RowOf(table, id)]>> ELSE << >>

\* the id SQLite gives an inserted row (INTEGER PRIMARY KEY): one more than
\* the largest id in the table
NextId(table) ==
    IF table = << >> THEN 1
    ELSE 1 + CHOOSE m \in { table[k].id : k \in 1..Len(table) } :
                 \A k \in 1..Len(table) : table[k].id <= m

\* a test that only asks whether the key is there
Falsy_key_missing(field) == field = << >>

\* not data.get(key): the key is missing or holds the empty string
Falsy(field) == field = << >> \/ field[1] = << >>

\* jsonify({'status': ..., ...}), code: every answer of 200 or 201 carries
\* the status 'success', every other one the status 'error'
Reply(op, code, data, warning) ==
    [op |-> op, code |-> code,
     status |-> IF code \in {200, 201} THEN "success" ELSE "error",
     data |-> data, warning |-> warning]

\* POST /api/folders
create_folder(fs, data) ==
    IF Falsy(data.name)
    THEN [code |-> 400, folders |-> fs, data |-> << >>]
    ELSE LET folder == [id |-> Len(fs) + 1,
                        name |-> data.name[1],
                        parent_id |-> IF data.parent_id = << >> THEN None
                                      ELSE data.parent_id[1]]
         IN  [code |-> 201, folders |-> Append(fs, folder), data |-> <<folder>>]

\* The nested function of update_folder.  It calls itself once per parent
\* link; where the links from target_parent_id run into a cycle that leaves
\* out check_folder_id the calls never end and Python raises RecursionError.
\* A chain without cycle has fewer links than there are rows, which is
\* where depth starts.
RECURSIVE would_create_circle(_, _, _, _)
would_create_circle(fs, check_folder_id, target_parent_id, depth) ==
    IF check_folder_id = target_parent_id THEN "True"
    ELSE IF depth = 0 THEN "RecursionError"
    ELSE LET parent == query_get(fs, target_parent_id)
         IN  IF parent /= << >> /\ parent[1].parent_id /= None
             THEN would_create_circle(fs, check_folder_id, parent[1].parent_id,
                                      depth - 1)
             ELSE "False"

\* an update_folder that commits the name it has set before it rejects the
\* parent
update_folder_name_committed(fs, folder_id, data) ==
    IF query_get(fs, folder_id) = << >>
    THEN [code |-> 404, folders |-> fs, data |-> << >>]
    ELSE IF data.name = << >> /\ data.parent_id = << >>
    THEN [code |-> 400, folders |-> fs, data |-> << >>]
    ELSE
      LET named == IF data.name /= << >>
                   THEN [fs[folder_id] EXCEPT !.name = data.name[1]]
                   ELSE fs[folder_id]
          circle == IF data.parent_id /= << >> /\ data.parent_id[1] /= None
                    THEN would_create_circle(fs, folder_id, data.parent_id[1],
                                             Len(fs))
                    ELSE "False"
          folder == IF data.parent_id /= << >>
                    THEN [named EXCEPT !.parent_id = data.parent_id[1]]
                    ELSE named
      IN  IF data.parent_id /= << >> /\ data.parent_id[1] = folder_id
          THEN [code |-> 400, folders |-> [fs EXCEPT ![folder_id] = named],
                data |-> << >>]
          ELSE IF circle = "True"
          THEN [code |-> 400, folders |-> [fs EXCEPT ![folder_id] = named],
                data |-> << >>]
          ELSE IF circle = "RecursionError"
          THEN [code |-> 500, folders |-> fs, data |-> << >>]
          ELSE [code |-> 200, folders |-> [fs EXCEPT ![folder_id] = folder],
                data |-> <<folder>>]

\* PUT /api/folders/<folder_id>.  A request that ends in 400 or 500 leaves
\* the table as it was: the name it has set is not committed.
update_folder(fs, folder_id, data) ==
    IF query_get(fs, folder_id) = << >>
    THEN [code |-> 404, folders |-> fs, data |-> << >>]
    ELSE IF data.name = << >> /\ data.parent_id = << >>
    THEN [code |-> 400, folders |-> fs, data |-> << >>]
    ELSE
      LET named == IF data.name /= << >>
                   THEN [fs[folder_id] EXCEPT !.name = data.name[1]]
                   ELSE fs[folder_id]
          circle == IF data.parent_id /= << >> /\ data.parent_id[1] /= None
                    THEN would_create_circle(fs, folder_id, data.parent_id[1],
                                             Len(fs))
                    ELSE "False"
          folder == IF data.parent_id /= << >>
                    THEN [named EXCEPT !.parent_id = data.parent_id[1]]
                    ELSE named
      IN  IF data.parent_id /= << >> /\ data.parent_id[1] = folder_id
          THEN [code |-> 400, folders |-> fs, data |-> << >>]
          ELSE IF circle = "True"
          THEN [code |-> 400, folders |-> fs, data |-> << >>]
          ELSE IF circle = "RecursionError"
          THEN [code |-> 500, folders |-> fs, data |-> << >>]
          ELSE [code |-> 200, folders |-> [fs EXCEPT ![folder_id] = folder],
                data |-> <<folder>>]

\* the inner try of create_template and update_template: the file is written
\* under the root whatever the folder_id, and an exception is logged as a
\* warning
save_and_warn(d, f, template, t) ==
    LET s == save_template_to_disk(d, f, template.title, template.content,
                                   NoPath, t)
    IN  [dirs |-> s.dirs, files |-> s.files, warning |-> ~s.ok]

\* a create_template whose write to disk is inside the transaction: an
\* exception of the write undoes the insert and is answered with 500
create_template_save_in_transaction(ts, d, f, data, t) ==
    IF Falsy(data.title)
    THEN [code |-> 400, templates |-> ts, data |-> << >>,
          dirs |-> d, files |-> f, warning |-> FALSE]
    ELSE LET template == [id |-> NextId(ts),
                          title |-> data.title[1],
                          content |-> IF data.content = << >> THEN << >>
                                      ELSE data.content[1],
                          folder_id |-> IF data.folder_id = << >> THEN None
                                        ELSE data.folder_id[1],
                          is_favorite |-> FALSE]
             s == save_and_warn(d, f, template, t)
         IN  IF s.warning
             THEN [code |-> 500, templates |-> ts, data |-> << >>,
                   dirs |-> s.dirs, files |-> s.files, warning |-> TRUE]
             ELSE [code |-> 201, templates |-> Append(ts, template),
                   data |-> <<template>>,
                   dirs |-> s.dirs, files |-> s.files, warning |-> FALSE]

\* POST /api/templates
create_template(ts, d, f, data, t) ==
    IF Falsy(data.title)
    THEN [code |-> 400, templates |-> ts, data |-> << >>,
          dirs |-> d, files |-> f, warning |-> FALSE]
    ELSE LET template == [id |-> NextId(ts),
                          title |-> data.title[1],
                          content |-> IF data.content = << >> THEN << >>
                                      ELSE data.content[1],
                          folder_id |-> IF data.folder_id = << >> THEN None
                                        ELSE data.folder_id[1],
                          is_favorite |-> FALSE]
             s == save_and_warn(d, f, template, t)
         IN  [code |-> 201, templates |-> Append(ts, template),
              data |-> <<template>>,
              dirs |-> s.dirs, files |-> s.files, warning |-> s.warning]

\* the fields of a template row as a body sets them
Updated(row, data) ==
    [id |-> row.id,
     title |-> IF data.title /= << >> THEN data.title[1] ELSE row.title,
     content |-> IF data.content /= << >> THEN data.content[1] ELSE row.content,
     folder_id |-> IF data.folder_id /= << >> THEN data.folder_id[1]
                   ELSE row.folder_id,
     is_favorite |-> row.is_favorite]

\* PUT /api/templates/<template_id>
update_template(ts, d, f, template_id, data, t) ==
    IF query_get(ts, template_id) = << >>
    THEN [code |-> 404, templates |-> ts, data |-> << >>,
          dirs |-> d, files |-> f, warning |-> FALSE]
    ELSE IF data.title = << >> /\ data.content = << >> /\ data.folder_id = << >>
    THEN [code |-> 400, templates |-> ts, data |-> << >>,
          dirs |-> d, files |-> f, warning |-> FALSE]
    ELSE LET template == Updated(ts[RowOf(ts, template_id)], data)
             s == save_and_warn(d, f, template, t)
         IN  [code |-> 200,
              templates |-> [ts EXCEPT ![RowOf(ts, template_id)] = template],
              data |-> <<template>>,
              dirs |-> s.dirs, files |-> s.files, warning |-> s.warning]

\* requests are served once the rebuild at start-up has returned
Serving == Ended(1)

CreateFolder(data) ==
    /\ Serving
    /\ Len(folders) < MaxFolders
    /\ LET r == create_folder(folders, data)
       IN  /\ folders' = r.folders
           /\ response' = Reply("create_folder", r.code, r.data, FALSE)
    /\ UNCHANGED <<templates, dirs, files, now, pc, idx, folder_paths,
                   runs, kills, raised, completed, call>>

UpdateFolder(folder_id, data) ==
    /\ Serving
    /\ LET r == update_folder(folders, folder_id, data)
       IN  /\ folders' = r.folders
           /\ response' = Reply("update_folder", r.code, r.data, FALSE)
    /\ UNCHANGED <<templates, dirs, files, now, pc, idx, folder_paths,
                   runs, kills, raised, completed, call>>

\* the table taking no more than limit rows
CreateTemplateUpTo(limit, data) ==
    /\ Serving
    /\ Len(templates) < limit
    /\ LET r == create_template(templates, dirs, files, data, now)
       IN  /\ templates' = r.templates
           /\ dirs' = r.dirs
           /\ files' = r.files
           /\ response' = Reply("create_template", r.code, r.data, r.warning)
    /\ UNCHANGED <<folders, now, pc, idx, folder_paths,
                   runs, kills, raised, completed, call>>

CreateTemplate(data) == CreateTemplateUpTo(SmallTemplates, data)

UpdateTemplate(template_id, data) ==
    /\ Serving
    /\ LET r == update_template(templates, dirs, files, template_id, data, now)
       IN  /\ templates' = r.templates
           /\ dirs' = r.dirs
           /\ files' = r.files
           /\ response' = Reply("update_template", r.code, r.data, r.warning)
    /\ UNCHANGED <<folders, now, pc, idx, folder_paths,
                   runs, kills, raised, completed, call>>

(* Folder requests on an empty store, once the application has started *)
InitFolders ==
    /\ folders = << >>
    /\ templates = << >>
    /\ Fresh

NextFolders ==
    \/ SyncStart(1)
    \/ \E data \in FolderBodies : CreateFolder(data)
    \/ \E folder_id \in 1..(MaxFolders + 1), data \in FolderBodies :
          UpdateFolder(folder_id, data)

SpecFolders == InitFolders /\ [][NextFolders]_vars

\* the same request, kept with its answer as the last call
UpdateFolderLogged(folder_id, data) ==
    /\ Serving
    /\ LET r == update_folder(folders, folder_id, data)
       IN  /\ folders' = r.folders
           /\ response' = Reply("update_folder", r.code, r.data, FALSE)
           /\ call' = [fn |-> "update_folder", arg |-> <<folder_id, data>>,
                       result |-> <<r.code>>]
    /\ UNCHANGED <<templates, dirs, files, now, pc, idx, folder_paths,
                   runs, kills, raised, completed>>

(* Folder requests on an empty store, each update kept with its answer *)
NextRename ==
    \/ SyncStart(1)
    \/ \E data \in FolderBodies : CreateFolder(data)
    \/ \E folder_id \in 1..(MaxFolders + 1), data \in FolderBodies :
          UpdateFolderLogged(folder_id, data)

SpecRename == InitFolders /\ [][NextRename]_vars

(* Template requests, once the application has started on the tables as     *)
(* given and has rebuilt the mirror on a fresh disk                          *)
InitRoutes ==
    /\ folders \in FolderTables(RouteFolders, FolderNames)
    /\ templates \in TemplateTables(SmallTemplates, Len(folders))
    /\ Fresh

NextRoutes ==
    \/ SyncStart(1)
    \/ SyncStep(1)
    \/ \E data \in TemplateBodies : CreateTemplate(data)
    \/ \E template_id \in 1..(SmallTemplates + 1), data \in TemplateBodies :
          UpdateTemplate(template_id, data)

SpecRoutes == InitRoutes /\ [][NextRoutes]_vars

-----------------------------------------------------------------------------
(* Reading, deleting and marking templates *)

\* file_path.exists() and file_path.unlink() of delete_template_from_disk:
\* a file is removed, a directory makes unlink raise, a path that is not
\* there is left alone
delete_template_from_disk(d, f, title, t) ==
    LET base == get_user_templates_dir(d)
        file_path == base.path \o <<sanitize_template_filename(title, t) \o DotMd>>
    IN  IF file_path \in DOMAIN f
        THEN [ok |-> TRUE, dirs |-> base.dirs,
              files |-> [q \in (DOMAIN f) \ {file_path} |-> f[q]]]
        ELSE [ok |-> file_path \notin base.dirs, dirs |-> base.dirs, files |-> f]

\* GET /api/templates/<template_id>
get_template(ts, template_id) ==
    IF query_get(ts, template_id) = << >>
    THEN [code |-> 404, data |-> << >>]
    ELSE [code |-> 200, data |-> query_get(ts, template_id)]

\* a DELETE that answers success and leaves the row where it is
delete_template_row_kept(ts, d, f, template_id, t) ==
    IF query_get(ts, template_id) = << >>
    THEN [code |-> 404, templates |-> ts, dirs |-> d, files |-> f,
          warning |-> FALSE]
    ELSE LET s == delete_template_from_disk(d, f, query_get(ts, template_id)[1].title, t)
         IN  [code |-> 200, templates |-> ts,
              dirs |-> s.dirs, files |-> s.files, warning |-> ~s.ok]

\* DELETE /api/templates/<template_id>
delete_template(ts, d, f, template_id, t) ==
    IF query_get(ts, template_id) = << >>
    THEN [code |-> 404, templates |-> ts, dirs |-> d, files |-> f,
          warning |-> FALSE]
    ELSE LET s == delete_template_from_disk(d, f, query_get(ts, template_id)[1].title, t)
         IN  [code |-> 200,
              templates |-> SelectSeq(ts, LAMBDA row : row.id /= template_id),
              dirs |-> s.dirs, files |-> s.files, warning |-> ~s.ok]

\* PUT /api/templates/<template_id>/favorite
toggle_template_favorite(ts, template_id, data) ==
    IF query_get(ts, template_id) = << >>
    THEN [code |-> 404, templates |-> ts, data |-> << >>]
    ELSE IF data.is_favorite = << >>
    THEN [code |-> 400, templates |-> ts, data |-> << >>]
    ELSE LET template == [ts[RowOf(ts, template_id)] EXCEPT
                             !.is_favorite = data.is_favorite[1]]
         IN  [code |-> 200,
              templates |-> [ts EXCEPT ![RowOf(ts, template_id)] = template],
              data |-> <<template>>]

\* s holds q as a run of consecutive characters
Contains(s, q) ==
    \E i \in 0..(Len(s) - Len(q)) : SubSeq(s, i + 1, i + Len(q)) = q

\* column.ilike('%query%')
ilike(s, q) == Contains(lower(s), lower(q))

\* Template.search (models.py), on the title and the content
search(ts, query) ==
    IF query = << >> THEN << >>
    ELSE SelectSeq(ts, LAMBDA row : ilike(row.title, query) \/ ilike(row.content, query))

\* Template.get_favorites (models.py)
get_favorites(ts) == SelectSeq(ts, LAMBDA row : row.is_favorite)

true_literal == <<"t", "r", "u", "e">>
Whitespace == {" ", "\n", "\t"}

\* GET /api/templates?folder_id=..&search=..&favorites=..: the rows of the
\* answer (their order, by updated_at, is left out)
get_templates(ts, args) ==
    LET folder_id == IF args.folder_id = << >> THEN None ELSE args.folder_id[1]
        search_query == IF args.search = << >> THEN << >>
                        ELSE strip(args.search[1], Whitespace)
        favorites_only == args.favorites /= << >> /\ lower(args.favorites[1]) = true_literal
        query == IF folder_id /= None
                 THEN SelectSeq(ts, LAMBDA row : row.folder_id = folder_id)
                 ELSE ts
    IN  [code |-> 200,
         data |-> IF search_query /= << >> THEN search(ts, search_query)
                  ELSE IF favorites_only THEN get_favorites(ts)
                  ELSE query]

DeleteTemplate(template_id) ==
    /\ Serving
    /\ LET r == delete_template(templates, dirs, files, template_id, now)
       IN  /\ templates' = r.templates
           /\ dirs' = r.dirs
           /\ files' = r.files
           /\ response' = Reply("delete_template", r.code, << >>, r.warning)
    /\ UNCHANGED <<folders, now, pc, idx, folder_paths,
                   runs, kills, raised, completed, call>>

GetTemplate(template_id) ==
    /\ Serving
    /\ LET r == get_template(templates, template_id)
       IN  response' = Reply("get_template", r.code, r.data, FALSE)
    /\ UNCHANGED <<folders, templates, dirs, files, now, pc, idx, folder_paths,
                   runs, kills, raised, completed, call>>

GetTemplates(args) ==
    /\ Serving
    /\ LET r == get_templates(templates, args)
       IN  response' = Reply("get_templates", r.code, r.data, FALSE)
    /\ UNCHANGED <<folders, templates, dirs, files, now, pc, idx, folder_paths,
                   runs, kills, raised, completed, call>>

ToggleFavorite(template_id, data) ==
    /\ Serving
    /\ LET r == toggle_template_favorite(templates, template_id, data)
       IN  /\ templates' = r.templates
           /\ response' = Reply("toggle_template_favorite", r.code, r.data, FALSE)
    /\ UNCHANGED <<folders, dirs, files, now, pc, idx, folder_paths,
                   runs, kills, raised, completed, call>>

\* Bodies and query strings of the requests below: a folder "A?" without
\* parent, a template "T" with or without content and folder, and a list
\* filtered by folder 1 or 2, by the search term "z" or a blank one, and by
\* favorites=true or favorites=True
PlainFolderBodies == [name : Opt({ <<"A", "?">>, << >> }), parent_id : { << >> }]
PlainTemplateBodies ==
    [title : Opt({ <<"T">>, << >> }), content : Opt({ ContentOf(1) }),
     folder_id : Opt({1})]
FavoriteBodies == [is_favorite : Opt(BOOLEAN)]
ListArgs ==
    [folder_id : Opt({1, 2}), search : Opt({ <<"z">>, <<" ">> }),
     favorites : Opt({ true_literal, <<"T", "r", "u", "e">> })]
TemplateIds == 1..(MaxTemplates + 1)

(* Requests of every kind on an empty store, once the application has started *)
InitRequests ==
    /\ folders = << >>
    /\ templates = << >>
    /\ Fresh

NextRequests ==
    \/ SyncStart(1)
    \/ \E data \in PlainFolderBodies : CreateFolder(data)
    \/ \E data \in PlainTemplateBodies : CreateTemplateUpTo(MaxTemplates, data)
    \/ \E template_id \in TemplateIds : DeleteTemplate(template_id)
    \/ \E template_id \in TemplateIds : GetTemplate(template_id)
    \/ \E args \in ListArgs : GetTemplates(args)
    \/ \E template_id \in TemplateIds, data \in FavoriteBodies :
          ToggleFavorite(template_id, data)

SpecRequests == InitRequests /\ [][NextRequests]_vars

-----------------------------------------------------------------------------
(* The sanitizers called on their own: sanitize_filename (app/utils/export.py) *)
(* and sanitize_folder_name (app/utils/filesystem.py)                          *)

untitled == <<"u", "n", "t", "i", "t", "l", "e", "d">>

\* a sanitize_filename that does not limit the length
sanitize_filename_unlimited(filename) ==
    LET stripped == strip(CollapseUnderscores(ReplaceInvalid(filename)), {"_", " "})
    IN  IF stripped = << >> THEN untitled ELSE stripped

sanitize_filename(filename) ==
    LET stripped == strip(CollapseUnderscores(ReplaceInvalid(filename)), {"_", " "})
        named == IF stripped = << >> THEN untitled ELSE stripped
    IN  IF Len(named) > MaxFilenameLength
        THEN SubSeq(named, 1, MaxFilenameLength)
        ELSE named

\* n times the character c
Repeat(c, n) == [i \in 1..n |-> c]

\* all texts of at most n characters of the set cs
Texts(cs, n) == UNION { [1..k -> cs] : k \in 0..n }

NameChars == {"c", "C", "o", "n", "_", " ", "<", "."}

\* the name of test_sanitize_filename_invalid_chars
TestFilename ==
    <<"f","i","l","e","<",">",":","\"","/","\\","|","?","*","n","a","m","e">>

\* names around the length limit, with and without characters to clean away
\* at their ends and where the limit cuts them
LongNames ==
    { pre \o Repeat("a", n) \o post :
        n \in {MaxFilenameLength - 1, MaxFilenameLength, MaxFilenameLength + 50},
        pre \in { << >>, <<"_">>, <<"<", "a">> },
        post \in { << >>, <<"_">>, <<"a", "?", "?", "a">>, <<"?", "a">> } }

DeviceNames ==
    { <<"c","o","m","1">>, <<"L","p","t","9">>, <<" ","a","u","x",".">>,
      <<"?","N","U","L","?">>, <<"p","r","n","?","x">> }

NameInputs ==
    Texts(NameChars, MaxNameLen) \cup LongNames \cup DeviceNames \cup {TestFilename}

SanitizeFilename ==
    /\ call.fn = "none"
    /\ call' = [fn |-> "sanitize_filename", arg |-> call.arg,
                result |-> sanitize_filename(call.arg)]
    /\ UNCHANGED <<folders, templates, dirs, files, now, pc, idx, folder_paths,
                   runs, kills, raised, completed, response>>

SanitizeFolderName ==
    /\ call.fn = "none"
    /\ call' = [fn |-> "sanitize_folder_name", arg |-> call.arg,
                result |-> sanitize_folder_name(call.arg, now)]
    /\ UNCHANGED <<folders, templates, dirs, files, now, pc, idx, folder_paths,
                   runs, kills, raised, completed, response>>

\* the clock while no function has been called
TickBefore ==
    /\ call.fn = "none"
    /\ now < MaxClock
    /\ now' = now + 1
    /\ UNCHANGED <<folders, templates, dirs, files, pc, idx, folder_paths,
                   runs, kills, raised, completed, response, call>>

(* One call of a sanitizer on one name *)
InitSanitize ==
    /\ folders = << >>
    /\ templates = << >>
    /\ dirs = {}
    /\ files = NoFiles
    /\ now = 0
    /\ pc = [r \in Runners |-> "idle"]
    /\ idx = [r \in Runners |-> 0]
    /\ folder_paths = [r \in Runners |-> << >>]
    /\ runs = 0
    /\ kills = 0
    /\ raised = [r \in Runners |-> FALSE]
    /\ completed = 0
    /\ response = NoResponse
    /\ call \in { [fn |-> "none", arg |-> name, result |-> << >>] :
                    name \in NameInputs }

NextSanitize ==
    \/ SanitizeFilename
    \/ SanitizeFolderName
    \/ TickBefore

SpecSanitize == InitSanitize /\ [][NextSanitize]_vars

\* names that are paths: dots, separators, letters and underscores
PathChars == {".", "/", "\\", "a", "_"}
PathNames == Texts(PathChars, MaxPathLen)

SanitizeTemplateFilename ==
    /\ call.fn = "none"
    /\ call' = [fn |-> "sanitize_template_filename", arg |-> call.arg,
                result |-> sanitize_template_filename(call.arg, now)]
    /\ UNCHANGED <<folders, templates, dirs, files, now, pc, idx, folder_paths,
                   runs, kills, raised, completed, response>>

(* One call of a sanitizer of the mirror on one name that is a path *)
InitComponents ==
    /\ folders = << >>
    /\ templates = << >>
    /\ dirs = {}
    /\ files = NoFiles
    /\ now = 0
    /\ pc = [r \in Runners |-> "idle"]
    /\ idx = [r \in Runners |-> 0]
    /\ folder_paths = [r \in Runners |-> << >>]
    /\ runs = 0
    /\ kills = 0
    /\ raised = [r \in Runners |-> FALSE]
    /\ completed = 0
    /\ response = NoResponse
    /\ call \in { [fn |-> "none", arg |-> name, result |-> << >>] :
                    name \in PathNames }

NextComponents ==
    \/ SanitizeFolderName
    \/ SanitizeTemplateFilename
    \/ TickBefore

SpecComponents == InitComponents /\ [][NextComponents]_vars

-----------------------------------------------------------------------------
(* markdown_to_text (app/utils/export.py): a chain of re.sub passes.  A      *)
(* pass is given by its matcher: Match(text, i) is << >> where the pattern   *)
(* does not match at position i, and otherwise <<e, r>>, e the position of   *)
(* the last character matched and r the text put in place of the match.      *)

\* the characters U+2022 (bullet) and U+0060 (backtick), each one character
\* of the text
Bullet == "U+2022"
Backtick == "U+0060"

UpperChar(c) ==
    IF \E i \in 1..26 : LowerCase[i] = c
    THEN UpperCase[CHOOSE i \in 1..26 : LowerCase[i] = c]
    ELSE c

upper(s) == [i \in 1..Len(s) |-> UpperChar(s[i])]

\* re.sub: the text is scanned from the left, a match is replaced and the
\* scan goes on behind it (no pattern of the chain matches the empty text)
RECURSIVE Sub(_, _, _)
Sub(Match(_, _), text, i) ==
    IF i > Len(text) THEN << >>
    ELSE LET m == Match(text, i)
         IN  IF m = << >> THEN <<text[i]>> \o Sub(Match, text, i + 1)
             ELSE m[2] \o Sub(Match, text, m[1] + 1)

\* '^' under re.MULTILINE
AtLineStart(text, i) == i = 1 \/ text[i - 1] = "\n"

\* '$' under re.MULTILINE, behind position e
AtLineEnd(text, e) == e = Len(text) \/ text[e + 1] = "\n"

\* text holds the characters w from position i on
HasAt(text, i, w) ==
    /\ i + Len(w) - 1 <= Len(text)
    /\ \A k \in 1..Len(w) : text[i + k - 1] = w[k]

\* the length of the longest run of characters of cs from position i on
Run(text, i, cs) ==
    CHOOSE n \in 0..(Len(text) - i + 1) :
        /\ \A k \in 0..(n - 1) : text[i + k] \in cs
        /\ (i + n > Len(text) \/ text[i + n] \notin cs)

\* '(.+)$' from position j on: the last position of the line of j
LineEnd(text, j) == j + Run(text, j, {text[k] : k \in 1..Len(text)} \ {"\n"}) - 1

\* '\s*(.+)$' or '\s+(.+)$' from position p on: where the group starts.  The
\* white space, which may run over line ends, is taken as long as possible
\* and given back until a character other than a line end follows; 0 when
\* there is no such start.
GroupStart(text, p, least) ==
    LET starts == { j \in (p + least)..(p + Run(text, p, Whitespace)) :
                      j <= Len(text) /\ text[j] /= "\n" }
    IN  IF starts = {} THEN 0
        ELSE CHOOSE j \in starts : \A k \in starts : k <= j

\* r'^#{1,6}\s*(.+)$' -> group 1 in upper case.  Of the '#' as many as
\* possible are taken, and given back one by one until the rest matches.
MatchHeader(text, i) ==
    IF ~(AtLineStart(text, i) /\ text[i] = "#") THEN << >>
    ELSE LET counts == { n \in 1..6 : n <= Run(text, i, {"#"})
                                      /\ GroupStart(text, i + n, 0) /= 0 }
         IN  IF counts = {} THEN << >>
             ELSE LET n == CHOOSE c \in counts : \A k \in counts : k <= c
                      j == GroupStart(text, i + n, 0)
                  IN  <<LineEnd(text, j), upper(SubSeq(text, j, LineEnd(text, j)))>>

\* r'D(.+?)D' -> group 1, for a delimiter D: the shortest inner text of at
\* least one character, none of them a line end, that D follows
MatchSpan(text, i, delim) ==
    IF ~HasAt(text, i, delim) THEN << >>
    ELSE LET d == Len(delim)
             inner == { k \in 1..Run(text, i + d, {text[q] : q \in 1..Len(text)} \ {"\n"}) :
                          HasAt(text, i + d + k, delim) }
         IN  IF inner = {} THEN << >>
             ELSE LET k == CHOOSE c \in inner : \A q \in inner : c <= q
                  IN  <<i + 2 * d + k - 1, SubSeq(text, i + d, i + d + k - 1)>>

MatchBoldItalic(text, i) == MatchSpan(text, i, <<"*", "*", "*">>)
MatchBold(text, i) == MatchSpan(text, i, <<"*", "*">>)
MatchItalic(text, i) == MatchSpan(text, i, <<"*">>)
MatchBoldAlt(text, i) == MatchSpan(text, i, <<"_", "_">>)
MatchItalicAlt(text, i) == MatchSpan(text, i, <<"_">>)
MatchInlineCode(text, i) == MatchSpan(text, i, <<Backtick>>)

Fence == <<Backtick, Backtick, Backtick>>

\* r'^```.*?\n' -> '': a line that begins with the fence, with its line end
MatchFenceLine(text, i) ==
    IF ~(AtLineStart(text, i) /\ HasAt(text, i, Fence)) THEN << >>
    ELSE LET e == LineEnd(text, i) + 1
         IN  IF e <= Len(text) THEN <<e, << >> >> ELSE << >>

\* r'^```$' -> ''
MatchFenceAlone(text, i) ==
    IF AtLineStart(text, i) /\ HasAt(text, i, Fence) /\ AtLineEnd(text, i + 2)
    THEN <<i + 2, << >> >> ELSE << >>

\* r'\[([^\]]+)\]\(([^)]+)\)' -> r'\1 (\2)'
MatchLink(text, i) ==
    IF text[i] /= "[" THEN << >>
    ELSE LET all == {text[q] : q \in 1..Len(text)}
             a == i + 1 + Run(text, i + 1, all \ {"]"})
             b == a + 2 + Run(text, a + 2, all \ {")"})
         IN  IF /\ a > i + 1
                /\ HasAt(text, a, <<"]", "(">>)
                /\ b > a + 2
                /\ HasAt(text, b, <<")">>)
             THEN <<b, SubSeq(text, i + 1, a - 1) \o <<" ", "(">>
                          \o SubSeq(text, a + 2, b - 1) \o <<")">> >>
             ELSE << >>

\* r'^>\s*(.+)$' -> r'"\1"'
MatchQuote(text, i) ==
    IF ~(AtLineStart(text, i) /\ text[i] = ">") THEN << >>
    ELSE LET j == GroupStart(text, i + 1, 0)
         IN  IF j = 0 THEN << >>
             ELSE <<LineEnd(text, j),
                    <<"\"">> \o SubSeq(text, j, LineEnd(text, j)) \o <<"\"">> >>

\* r'^[\*\-\+]\s+(.+)$' -> the bullet, a space and group 1
MatchUnordered(text, i) ==
    IF ~(AtLineStart(text, i) /\ text[i] \in {"*", "-", "+"}) THEN << >>
    ELSE LET j == GroupStart(text, i + 1, 1)
         IN  IF j = 0 THEN << >>
             ELSE <<LineEnd(text, j),
                    <<Bullet, " ">> \o SubSeq(text, j, LineEnd(text, j))>>

Digits == {"0", "1", "2", "3", "4", "5", "6", "7", "8", "9"}

\* r'^\d+\.\s+(.+)$' -> the match itself
MatchOrdered(text, i) ==
    IF ~(AtLineStart(text, i) /\ text[i] \in Digits) THEN << >>
    ELSE LET dot == i + Run(text, i, Digits)
             j == IF HasAt(text, dot, <<".">>) THEN GroupStart(text, dot + 1, 1)
                  ELSE 0
         IN  IF j = 0 THEN << >>
             ELSE <<LineEnd(text, j), SubSeq(text, i, LineEnd(text, j))>>

\* r'^[\-\*_]{3,}$' -> ''
MatchRule(text, i) ==
    IF ~AtLineStart(text, i) THEN << >>
    ELSE LET n == Run(text, i, {"-", "*", "_"})
         IN  IF n >= 3 /\ AtLineEnd(text, i + n - 1)
             THEN <<i + n - 1, << >> >> ELSE << >>

\* r'\n\s*\n\s*\n' -> '\n\n': a run of white space with three line ends or
\* more, from its first line end up to its last
MatchBlankLines(text, i) ==
    IF text[i] /= "\n" THEN << >>
    ELSE LET n == Run(text, i, Whitespace)
             ends == { k \in i..(i + n - 1) : text[k] = "\n" }
         IN  IF Cardinality(ends) >= 3
             THEN <<CHOOSE e \in ends : \A k \in ends : k <= e, <<"\n", "\n">> >>
             ELSE << >>

\* the passes of markdown_to_text up to one of them
AfterHeaders(text) == Sub(MatchHeader, text, 1)
AfterEmphasis(text) ==
    Sub(MatchItalicAlt,
        Sub(MatchBoldAlt,
            Sub(MatchItalic,
                Sub(MatchBold,
                    Sub(MatchBoldItalic, AfterHeaders(text), 1), 1), 1), 1), 1)
AfterCode(text) ==
    Sub(MatchFenceAlone,
        Sub(MatchFenceLine,
            Sub(MatchInlineCode, AfterEmphasis(text), 1), 1), 1)
AfterLists(text) ==
    Sub(MatchOrdered,
        Sub(MatchUnordered,
            Sub(MatchQuote,
                Sub(MatchLink, AfterCode(text), 1), 1), 1), 1)

markdown_to_text(markdown_content) ==
    IF markdown_content = << >> THEN << >>
    ELSE strip(Sub(MatchBlankLines, Sub(MatchRule, AfterLists(markdown_content), 1), 1),
               Whitespace)

MdChars == {"#", "*", "_", "-", Backtick, "a", " ", "\n"}

\* the text of a Python string literal, character by character
HeadersDoc ==
    <<"#"," ","H","e","a","d","e","r"," ","1","\n",
      "#","#"," ","H","e","a","d","e","r"," ","2","\n",
      "#","#","#"," ","H","e","a","d","e","r"," ","3">>
FormattingDoc ==
    <<"*","*","B","o","l","d","*","*"," ","a","n","d"," ","*","i","t","a","l","i","c","*",
      " ","a","n","d"," ",Backtick,"c","o","d","e",Backtick>>
ListsDoc ==
    <<"-"," ","I","t","e","m"," ","1","\n","-"," ","I","t","e","m"," ","2","\n",
      "1","."," ","F","i","r","s","t","\n","2","."," ","S","e","c","o","n","d">>

SpanMarkers ==
    { <<"*","*","*">>, <<"*","*">>, <<"*">>, <<"_","_">>, <<"_">>, <<Backtick>> }

\* a span on one line, alone and inside a sentence, and a span whose markers
\* are on two lines
SpanDocs ==
    { m \o x \o m : m \in SpanMarkers, x \in { <<"a">>, <<"a", " ", "b">> } }
    \cup { <<"b", " ">> \o m \o <<"a">> \o m \o <<" ", "c">> : m \in SpanMarkers }
    \cup { m \o <<"a", "\n", "b">> \o m : m \in SpanMarkers }

\* fenced code blocks: with and without language tag, of one and two lines,
\* with and without a line end behind the closing fence
FencedDocs ==
    { Fence \o tag \o <<"\n">> \o body \o <<"\n">> \o Fence \o tail :
        tag \in { << >>, <<"p", "y">> },
        body \in { <<"a">>, <<"a", "\n", "b">>, <<"x", " ", "=", " ", "1">> },
        tail \in { << >>, <<"\n">>, <<"\n", "c">> } }

\* list lines: the three markers, a space or a tab, and rests with further
\* markers; ordered list lines
ListDocs ==
    { <<m>> \o <<w>> \o rest :
        m \in {"*", "-", "+"}, w \in {" ", "\t"},
        rest \in { <<"a">>, <<"a", " ", "*", "b">>, <<"a", "_", "b">>,
                   <<"a", " ", "*", "b", "*">>, <<"a", "_", "b", "_", "c">> } }
    \cup { <<"1", ".", " ", "a">>, <<"1", "2", ".", " ", "a", " ", "b">>,
           <<"1", ".", " ", "a", "\n", "2", ".", " ", "b">> }

\* horizontal rules: alone and between two lines
RuleDocs ==
    { Repeat(c, n) : c \in {"-", "*", "_"}, n \in 3..5 }
    \cup { <<"a", "\n">> \o Repeat(c, n) \o <<"\n", "b">> :
             c \in {"-", "*", "_"}, n \in 3..4 }

Docs ==
    Texts(MdChars, MaxDocLen)
    \cup { HeadersDoc, FormattingDoc, ListsDoc }
    \cup SpanDocs \cup FencedDocs \cup ListDocs \cup RuleDocs

MarkdownToText ==
    /\ call.fn = "none"
    /\ call' = [fn |-> "markdown_to_text", arg |-> call.arg,
                result |-> markdown_to_text(call.arg)]
    /\ UNCHANGED <<folders, templates, dirs, files, now, pc, idx, folder_paths,
                   runs, kills, raised, completed, response>>

(* One call of markdown_to_text on one document *)
InitMarkdown ==
    /\ folders = << >>
    /\ templates = << >>
    /\ dirs = {}
    /\ files = NoFiles
    /\ now = 0
    /\ pc = [r \in Runners |-> "idle"]
    /\ idx = [r \in Runners |-> 0]
    /\ folder_paths = [r \in Runners |-> << >>]
    /\ runs = 0
    /\ kills = 0
    /\ raised = [r \in Runners |-> FALSE]
    /\ completed = 0
    /\ response = NoResponse
    /\ call \in { [fn |-> "none", arg |-> doc, result |-> << >>] : doc \in Docs }

NextMarkdown == MarkdownToText

SpecMarkdown == InitMarkdown /\ [][NextMarkdown]_vars

-----------------------------------------------------------------------------
(* export_to_markdown and get_export_stats (app/utils/export.py).  A        *)
(* template is here the record of the attributes the two functions read.    *)

WordsPerMinute == 200

\* strftime('%Y-%m-%d %H:%M:%S') of the clock value t
strftime_seconds(t) ==
    <<"2", "0", "2", "6", "-", "0", "1", "-", "0", "1", " ", "0", "0", ":", "0", "0", ":">> \o <<Digit(t \div 10), Digit(t % 10)>>

\* str.startswith
startswith(s, w) == Len(w) <= Len(s) /\ SubSeq(s, 1, Len(w)) = w

\* the metadata header of export_to_markdown, written at clock value t.  A
\* description that is None is the empty text here, as 'description or ""'
\* makes it, and folder is the name of the template's folder, empty where
\* the template has none.
export_metadata(template, t) ==
    <<"-", "-", "-", "\n", "t", "i", "t", "l", "e", ":", " ", "\"">> \o template.title
    \o <<"\"", "\n", "d", "e", "s", "c", "r", "i", "p", "t", "i", "o", "n", ":", " ", "\"">>
    \o template.description
    \o <<"\"", "\n", "c", "r", "e", "a", "t", "e", "d", ":", " ">> \o strftime_seconds(template.created_at)
    \o <<"\n", "u", "p", "d", "a", "t", "e", "d", ":", " ">> \o strftime_seconds(template.updated_at)
    \o <<"\n", "f", "o", "l", "d", "e", "r", ":", " ", "\"">>
    \o (IF template.folder = << >> THEN <<"R", "o", "o", "t">> ELSE template.folder)
    \o <<"\"", "\n", "f", "a", "v", "o", "r", "i", "t", "e", ":", " ">>
    \o (IF template.is_favorite THEN <<"t", "r", "u", "e">> ELSE <<"f", "a", "l", "s", "e">>)
    \o <<"\n", "e", "x", "p", "o", "r", "t", "e", "d", ":", " ">> \o strftime_seconds(t)
    \o <<"\n", "-", "-", "-", "\n", "\n">>

export_to_markdown_heading_always(template, t) ==
    export_metadata(template, t)
        \o <<"#", " ">> \o template.title \o <<"\n", "\n">> \o template.content

export_to_markdown(template, t) ==
    export_metadata(template, t)
        \o (IF ~startswith(strip(template.content, Whitespace), <<"#">>)
            THEN <<"#", " ">> \o template.title \o <<"\n", "\n">> \o template.content
            ELSE template.content)

RECURSIVE Count(_, _, _)
\* len(re.findall(pattern, text)): the matches from position i on, each
\* search starting behind the match before
Count(Match(_, _), text, i) ==
    LET starts == { j \in i..Len(text) : Match(text, j) /= << >> }
    IN  IF starts = {} THEN 0
        ELSE LET j == CHOOSE k \in starts : \A l \in starts : k <= l
             IN  1 + Count(Match, text, Match(text, j)[1] + 1)

\* a pattern 'open [^c]+ close' at position i, c the character the inner
\* text may not hold: <<e>> with e the last position matched
MatchBetween(text, i, open, c, close) ==
    LET p == i + Len(open)
        n == IF HasAt(text, i, open)
             THEN Run(text, p, {text[k] : k \in 1..Len(text)} \ {c})
             ELSE 0
    IN  IF n >= 1 /\ HasAt(text, p + n, close)
        THEN <<p + n + Len(close) - 1>>
        ELSE << >>

\* r'\*\*[^*]+\*\*'
FindBold(text, i) == MatchBetween(text, i, <<"*", "*">>, "*", <<"*", "*">>)
\* r'\*[^*]+\*'
FindItalic(text, i) == MatchBetween(text, i, <<"*">>, "*", <<"*">>)
\* r'`[^`]+`'
FindInlineCode(text, i) == MatchBetween(text, i, <<Backtick>>, Backtick, <<Backtick>>)
\* r'```'
FindFence(text, i) == IF HasAt(text, i, Fence) THEN <<i + 2>> ELSE << >>
\* r'\[([^\]]+)\]\(([^)]+)\)'
FindLink(text, i) == IF MatchLink(text, i) = << >> THEN << >> ELSE <<MatchLink(text, i)[1]>>

\* r'^#{1,6}\s' with re.MULTILINE: the line starts where it matches
HeaderStarts(text) ==
    { i \in 1..Len(text) :
        /\ AtLineStart(text, i)
        /\ \E n \in 1..6 :
              /\ n <= Run(text, i, {"#"})
              /\ i + n <= Len(text)
              /\ text[i + n] \in Whitespace }

\* r'^[\*\-\+\d+\.]\s' with re.MULTILINE: one character of the class, which
\* holds '*', '-', '+', the digits and '.', and one white space character
ListStarts(text) ==
    { i \in 1..Len(text) :
        /\ AtLineStart(text, i)
        /\ text[i] \in {"*", "-", "+", "."} \cup Digits
        /\ i + 1 <= Len(text)
        /\ text[i + 1] \in Whitespace }

\* len(content.split()): the words, each begun where a character that is no
\* white space has none or white space before it
words(content) ==
    Cardinality({ i \in 1..Len(content) :
        content[i] \notin Whitespace /\ (i = 1 \/ content[i - 1] \in Whitespace) })

\* the lines of content.split('\n') that hold more than white space
non_empty_lines(content) ==
    Cardinality({ i \in 1..Len(content) :
        /\ AtLineStart(content, i)
        /\ LET n == Run(content, i, {content[k] : k \in 1..Len(content)} \ {"\n"})
           IN  \E k \in i..(i + n - 1) : content[k] \notin Whitespace })

Max(a, b) == IF a >= b THEN a ELSE b

estimated_reading_time_floor_zero(content) == words(content) \div WordsPerMinute

estimated_reading_time(content) == Max(1, words(content) \div WordsPerMinute)

get_export_stats(template) ==
    LET content == template.content
    IN  [ total_lines |-> 1 + Cardinality({ i \in 1..Len(content) : content[i] = "\n" }),
          non_empty_lines |-> non_empty_lines(content),
          words |-> words(content),
          characters |-> Len(content),
          characters_no_spaces |-> Cardinality({ i \in 1..Len(content) : content[i] /= " " }),
          headers |-> Cardinality(HeaderStarts(content)),
          bold_text |-> Count(FindBold, content, 1),
          italic_text |-> Count(FindItalic, content, 1),
          code_blocks |-> Count(FindFence, content, 1) \div 2,
          inline_code |-> Count(FindInlineCode, content, 1),
          links |-> Count(FindLink, content, 1),
          lists |-> Cardinality(ListStarts(content)),
          estimated_reading_time |-> estimated_reading_time(content) ]

StatChars == {"#", "*", "-", "1", ".", " ", "\n", "a"}

\* the content of the sample template of the tests
SampleContent == <<"#", " ", "T", "e", "s", "t", "\n", "\n", "T", "h", "i", "s", " ", "i", "s", " ", "a", " ", "*", "*", "t", "e", "s", "t", "*", "*", " ", "t", "e", "m", "p", "l", "a", "t", "e", ".">>

\* n words of one letter, a space between two
WordDoc(n) == [i \in 1..(2 * n - 1) |-> IF i % 2 = 1 THEN "a" ELSE " "]

\* contents around the reading times 1 and 2
WordDocs == { WordDoc(n) : n \in {WordsPerMinute - 1, WordsPerMinute,
                                  MaxWords - 1, MaxWords} }

\* list items of each kind, bold and italic spans, and code and a link
MarkedDocs ==
    { <<Backtick, "a", Backtick, " ", "[", "b", "]", "(", "c", ")", "\n">>
          \o Fence \o <<"\n", "x", "\n">> \o Fence,
      <<"-", " ", "a", "\n", "+", " ", "b", "\n", "*", " ", "c">>, <<"1", ".", " ", "a", "\n", "2", ".", " ", "b">>, <<"-", " ", "a", "\n", "1", ".", " ", "b">>, <<"1", "2", ".", " ", "a">>,
      <<"*", "*", "a", "*", "*", " ", "b">>, <<"*", "a", "*", " ", "b">>, <<"*", "*", "a", "*", "*", " ", "*", "b", "*">>, <<"*", "*", "a", "*", "*", " ", "*", "*", "b", "*", "*">>, <<"x", " ", "*", "a", "*", " ", "*", "b", "*">> }

ExportContents ==
    Texts(StatChars, MaxStatLen) \cup {SampleContent} \cup WordDocs \cup MarkedDocs

ExportTemplates ==
    { [title |-> m.title, description |-> m.description, content |-> c,
       folder |-> m.folder, is_favorite |-> m.is_favorite,
       created_at |-> 0, updated_at |-> 0] :
        m \in { [title |-> <<"T">>, description |-> << >>, folder |-> << >>,
                 is_favorite |-> FALSE],
                [title |-> <<"T", "e", "s", "t", " ", "T", "e", "m", "p", "l", "a", "t", "e">>, description |-> <<"d">>, folder |-> <<"F">>,
                 is_favorite |-> TRUE] },
        c \in ExportContents }

ExportToMarkdown ==
    /\ call.fn = "none"
    /\ call' = [fn |-> "export_to_markdown", arg |-> call.arg,
                result |-> export_to_markdown(call.arg, now)]
    /\ UNCHANGED <<folders, templates, dirs, files, now, pc, idx, folder_paths,
                   runs, kills, raised, completed, response>>

GetExportStats ==
    /\ call.fn = "none"
    /\ call' = [fn |-> "get_export_stats", arg |-> call.arg,
                result |-> get_export_stats(call.arg)]
    /\ UNCHANGED <<folders, templates, dirs, files, now, pc, idx, folder_paths,
                   runs, kills, raised, completed, response>>

(* One call of an export function on one template *)
InitExport ==
    /\ folders = << >>
    /\ templates = << >>
    /\ dirs = {}
    /\ files = NoFiles
    /\ now = 0
    /\ pc = [r \in Runners |-> "idle"]
    /\ idx = [r \in Runners |-> 0]
    /\ folder_paths = [r \in Runners |-> << >>]
    /\ runs = 0
    /\ kills = 0
    /\ raised = [r \in Runners |-> FALSE]
    /\ completed = 0
    /\ response = NoResponse
    /\ call \in { [fn |-> "none", arg |-> template, result |-> << >>] :
                    template \in ExportTemplates }

NextExport ==
    \/ ExportToMarkdown
    \/ GetExportStats
    \/ TickBefore

SpecExport == InitExport /\ [][NextExport]_vars

-----------------------------------------------------------------------------
(* What the mirror is expected to hold *)

\* the chain of parent references of folder i ends at a folder with no parent
RECURSIVE RootedWithin(_, _)
RootedWithin(i, fuel) ==
    IF i \notin 1..Len(folders) THEN FALSE
    ELSE IF folders[i].parent_id = None THEN TRUE
    ELSE IF fuel = 0 THEN FALSE
    ELSE RootedWithin(folders[i].parent_id, fuel - 1)

Rooted(i) == RootedWithin(i, Len(folders))

\* <root>/<ancestor dirs>/<sanitized name> of a rooted folder, named at time t
RECURSIVE ExpectedDir(_, _)
ExpectedDir(i, t) ==
    IF folders[i].parent_id = None
    THEN <<sanitize_folder_name(folders[i].name, t)>>
    ELSE ExpectedDir(folders[i].parent_id, t)
            \o <<sanitize_folder_name(folders[i].name, t)>>

\* the text of a mirror file after its header (four lines) and the blank line
RECURSIVE DropLines(_, _)
DropLines(text, n) ==
    IF n = 0 \/ text = << >> THEN text
    ELSE IF Head(text) = "\n" THEN DropLines(Tail(text), n - 1)
    ELSE DropLines(Tail(text), n)

Body(text) == DropLines(text, 5)

FileName(k, t) == sanitize_template_filename(templates[k].title, t) \o DotMd

\* the folder_id of template row k is in the id-to-path map of run r
Mapped(r, k) ==
    /\ templates[k].folder_id /= None
    /\ templates[k].folder_id \in DOMAIN folder_paths[r]

\* run r takes a step that processes template row k and does not raise
WritesTemplate(r, k) ==
    /\ Active(r) /\ pc[r] = "templates" /\ idx[r] = k
    /\ <<pc[r], idx[r]>> /= <<pc'[r], idx'[r]>>
    /\ ~raised'[r]

\* nothing but the file at p changes on disk in this step
OnlyFileChanged(p) ==
    /\ DOMAIN files' = DOMAIN files \cup {p}
    /\ \A q \in DOMAIN files : q /= p => files'[q] = files[q]

\* C1: when a rebuild returns, every folder whose chain of parents ends at a
\* folder with no parent has its directory <root>/<ancestors>/<name>, whatever
\* the depth and whatever the order of the rows.
C1_EveryRootedFolderMirrored ==
    pc[1] = "done" =>
        \A i \in 1..Len(folders) :
            Rooted(i) =>
                /\ i \in DOMAIN folder_paths[1]
                /\ folder_paths[1][i] = ExpectedDir(i, now)
                /\ ExpectedDir(i, now) \in dirs

TargetFile(r, k) ==
    (IF Mapped(r, k) THEN folder_paths[r][templates[k].folder_id] ELSE Root)
        \o <<FileName(k, now)>>

\* C4: with a folder whose parent_id is the id of no folder, a rebuild that
\* returns has given no id-to-path entry and no directory to that folder and
\* its descendants, has mirrored every other folder, and has written every
\* template.
Dangling(i) ==
    /\ folders[i].parent_id /= None
    /\ folders[i].parent_id \notin 1..Len(folders)

RECURSIVE UnderDangling(_, _)
UnderDangling(i, fuel) ==
    \/ Dangling(i)
    \/ /\ fuel > 0
       /\ folders[i].parent_id \in 1..Len(folders)
       /\ UnderDangling(folders[i].parent_id, fuel - 1)

C4_DanglingSkippedOthersMirrored ==
    (pc[1] = "done" /\ \E i \in 1..Len(folders) : Dangling(i)) =>
        /\ \A i \in 1..Len(folders) :
              UnderDangling(i, Len(folders)) => i \notin DOMAIN folder_paths[1]
        /\ dirs \subseteq {Root} \cup { folder_paths[1][i] : i \in DOMAIN folder_paths[1] }
        /\ \A i \in 1..Len(folders) :
              ~UnderDangling(i, Len(folders)) /\ Rooted(i) =>
                  i \in DOMAIN folder_paths[1] /\ folder_paths[1][i] \in dirs
        /\ \A k \in 1..Len(templates) : TargetFile(1, k) \in DOMAIN files

\* C5: when the write of one template raises, the files of all the other
\* templates whose own write does not raise are on disk once the rebuild has
\* ended.
C5_WriteFailureDoesNotAbort ==
    raised[1] =>
        \A k \in 1..Len(templates) :
            TargetFile(1, k) \notin dirs => TargetFile(1, k) \in DOMAIN files

-----------------------------------------------------------------------------
(* Repeated and interrupted rebuilds *)

\* C6: once a first rebuild has run to its end, a second one on the same rows
\* adds or removes no directory and no file, whatever the names and titles.
C6_SecondRunLeavesSameMirror ==
    [][ (completed >= 1 /\ kills = 0) =>
            (dirs' = dirs /\ DOMAIN files' = DOMAIN files) ]_vars

\* An uninterrupted rebuild of a fresh disk, step i of it taken at time tf[i]:
\* the root loop takes steps 1..n, the child loop n+1..2n, the template loop
\* the rest.
RECURSIVE FoldRoots(_, _, _)
FoldRoots(st, i, tf) ==
    IF ~st.ok \/ i > Len(folders) THEN st
    ELSE FoldRoots(RootIter(st, folders[i], tf[i]), i + 1, tf)

RECURSIVE FoldChildren(_, _, _)
FoldChildren(st, i, tf) ==
    IF ~st.ok \/ i > Len(folders) THEN st
    ELSE FoldChildren(ChildIter(st, folders[i], tf[Len(folders) + i]), i + 1, tf)

RECURSIVE FoldTemplates(_, _, _)
FoldTemplates(st, k, tf) ==
    IF ~st.ok \/ k > Len(templates) THEN st
    ELSE FoldTemplates(TemplateIter(st, templates[k], tf[2 * Len(folders) + k]),
                       k + 1, tf)

Rebuild(tf) ==
    FoldTemplates(
        FoldChildren(
            FoldRoots([dirs |-> {}, files |-> NoFiles, fp |-> << >>, ok |-> TRUE],
                      1, tf),
            1, tf),
        1, tf)

Schedules ==
    LET steps == 1..(2 * Len(folders) + Len(templates))
    IN  { tf \in [steps -> 0..MaxClock] :
            \A i, j \in steps : i < j => tf[i] <= tf[j] }

\* a mirror file without its 'created' line (the third line)
TakeLines(text, n) == SubSeq(text, 1, Len(text) - Len(DropLines(text, n)))
WithoutCreated(text) == TakeLines(text, 2) \o DropLines(text, 3)

SameMirror(u) ==
    /\ dirs = u.dirs
    /\ DOMAIN files = DOMAIN u.files
    /\ \A p \in DOMAIN files :
          WithoutCreated(files[p]) = WithoutCreated(u.files[p])

\* C7: a rebuild interrupted after some of its steps and then run again to its
\* end leaves the directories, files and contents (the 'created' line apart)
\* of one uninterrupted rebuild of the same starting disk.
C7_RerunAfterInterruptEqualsOneRebuild ==
    (kills = 1 /\ runs = 2 /\ completed = 1 /\ Ended(1)) =>
        \E tf \in Schedules : SameMirror(Rebuild(tf))

-----------------------------------------------------------------------------
(* Interleaved rebuilds *)

\* the rows whose file, as rebuild r files them, is p
WritersOf(r, p) == { k \in 1..Len(templates) : TargetFile(r, k) = p }

Last(ks) == CHOOSE k \in ks : \A j \in ks : j <= k

\* every file holds the whole text of the last row written to its path
LastWriterWins ==
    (\A r \in Runners : pc[r] = "done") =>
        /\ folder_paths[1] = folder_paths[2]
        /\ DOMAIN files = { TargetFile(1, k) : k \in 1..Len(templates) }
        /\ \A p \in DOMAIN files :
              LET k == Last(WritersOf(1, p))
              IN  files[p] = metadata(templates[k].title, now) \o templates[k].content

\* C8 as stated: in every interleaving of two rebuilds no step raises, and
\* once both have returned every file holds the whole text of the rebuild
\* that wrote it last.
C8_InterleavedRunsNeverRaise ==
    /\ \A r \in Runners : ~raised[r]
    /\ LastWriterWins

\* a rebuild has raised only at a template whose file path is the directory
\* of a mirrored folder
RaisedOnlyAtDirectoryClash(r) ==
    raised[r] =>
        /\ pc[r] = "templates"
        /\ \E i \in DOMAIN folder_paths[r] :
              folder_paths[r][i] = TargetFile(r, idx[r])

\* What interleaving leaves intact: in every interleaving of two rebuilds a
\* step raises only where a template's file path is the directory of a
\* mirrored folder (as in one rebuild alone), no directory a rebuild has
\* recorded is missing, and once both have returned every file holds the
\* whole text of the rebuild that wrote it last.
InterleavingAddsNoFailure ==
    /\ \A r \in Runners : RaisedOnlyAtDirectoryClash(r)
    /\ \A r \in Runners :
          \A i \in DOMAIN folder_paths[r] : folder_paths[r][i] \in dirs
    /\ LastWriterWins

BothReturnedSharingAPath ==
    /\ \A r \in Runners : pc[r] = "done"
    /\ \E p \in DOMAIN files : Cardinality(WritersOf(1, p)) = 2
    /\ DOMAIN folder_paths[1] /= {}

-----------------------------------------------------------------------------
(* The folder and template requests *)

\* following parent_id from folder j leads to folder i within fuel links
RECURSIVE ReachedFrom(_, _, _)
ReachedFrom(i, j, fuel) ==
    IF j = i THEN TRUE
    ELSE IF j \notin 1..Len(folders) \/ fuel = 0 THEN FALSE
    ELSE IF folders[j].parent_id = None THEN FALSE
    ELSE ReachedFrom(i, folders[j].parent_id, fuel - 1)

OwnAncestor(i) ==
    /\ folders[i].parent_id /= None
    /\ ReachedFrom(i, folders[i].parent_id, Len(folders))

\* C9: after any create_folder and update_folder requests on an empty store no
\* folder is its own parent and none reaches itself along parent_id.
C9_ParentGraphAcyclic ==
    \A i \in 1..Len(folders) : ~OwnAncestor(i)

\* the row a create_template request with this body stores
Created(data) ==
    [id |-> Len(templates) + 1,
     title |-> data.title[1],
     content |-> IF data.content = << >> THEN << >> ELSE data.content[1],
     folder_id |-> IF data.folder_id = << >> THEN None ELSE data.folder_id[1],
     is_favorite |-> FALSE]

\* C10: a create_template or update_template request whose write to disk
\* raises is answered with 201 or 200 and the stored template, and the row it
\* has inserted or changed is in the templates table as the request gave it.
C10_DiskFailureKeepsTemplate ==
    [][ response'.warning =>
          /\ \A data \in TemplateBodies :
                CreateTemplate(data) =>
                    /\ response'.code = 201
                    /\ templates' = Append(templates, Created(data))
                    /\ response'.data = <<templates'[Len(templates')]>>
          /\ \A template_id \in 1..(SmallTemplates + 1), data \in TemplateBodies :
                UpdateTemplate(template_id, data) =>
                    /\ response'.code = 200
                    /\ templates' = [templates EXCEPT ![template_id] =
                                        Updated(templates[template_id], data)]
                    /\ response'.data = <<templates'[template_id]>>
      ]_vars

C10_Witness ==
    /\ response.op = "create_template"
    /\ response.warning
    /\ response.code = 201
    /\ response.data /= << >>
    /\ Root \o <<sanitize_template_filename(response.data[1].title, now) \o DotMd>>
          \in dirs

-----------------------------------------------------------------------------
(* Requests that are refused, deleted templates, filtered lists *)

\* the key is missing from the body or holds the empty string
Lacks(field) == field = << >> \/ field = << << >> >>

\* this step answers 400 with status 'error' and leaves tables and disk alone
Rejected ==
    /\ response'.code = 400
    /\ response'.status = "error"
    /\ folders' = folders
    /\ templates' = templates
    /\ files' = files
    /\ dirs' = dirs

\* C11: a create_folder request without a non-empty 'name' and a
\* create_template request without a non-empty 'title' are answered 400 with
\* status 'error', and the folders, the templates and the disk stay as they
\* were.
C11_CreateWithoutRequiredFieldRejected ==
    [][ response'.op \in {"create_folder", "create_template"} =>
          /\ \A data \in FolderBodies :
                (CreateFolder(data) /\ Lacks(data.name)) => Rejected
          /\ \A data \in TemplateBodies :
                (CreateTemplateUpTo(MaxTemplates, data) /\ Lacks(data.title))
                    => Rejected
      ]_vars

C11_Witness ==
    /\ response.op = "create_template"
    /\ response.code = 400
    /\ templates /= << >>
    /\ folders /= << >>
    /\ DOMAIN files /= {}

NoArgs == [folder_id |-> << >>, search |-> << >>, favorites |-> << >>]

Stored(template_id) == \E k \in 1..Len(templates) : templates[k].id = template_id

\* this step changes neither a table nor the disk
NothingChanged ==
    /\ folders' = folders
    /\ templates' = templates
    /\ files' = files
    /\ dirs' = dirs

\* C12: a DELETE of a stored template answers success, and then a GET of
\* that id answers 404, the list of all templates does not hold it, and the
\* other rows are as they were; a DELETE or GET of an id that is not stored
\* answers 404 and changes nothing.
C12_DeletedTemplateIsGone ==
    [][ response'.op \in {"delete_template", "get_template"} =>
          \A template_id \in TemplateIds :
              /\ (DeleteTemplate(template_id) /\ Stored(template_id)) =>
                    /\ response'.code = 200
                    /\ response'.status = "success"
                    /\ get_template(templates', template_id).code = 404
                    /\ LET listed == get_templates(templates', NoArgs).data
                       IN  \A k \in 1..Len(listed) : listed[k].id /= template_id
                    /\ templates' =
                          SelectSeq(templates, LAMBDA row : row.id /= template_id)
                    /\ folders' = folders
              /\ (DeleteTemplate(template_id) /\ ~Stored(template_id)) =>
                    (response'.code = 404 /\ NothingChanged)
              /\ (GetTemplate(template_id) /\ ~Stored(template_id)) =>
                    (response'.code = 404 /\ NothingChanged)
      ]_vars

C12_Witness ==
    /\ response.op = "delete_template"
    /\ response.code = 200
    /\ Len(templates) = 1
    /\ templates[1].id = 2

\* C13: whatever else the query string holds, with folder_id=f every
\* template of the answer has folder_id f, and with favorites=true every
\* template of the answer is a favorite.
C13_EveryFilterHonoured ==
    [][ response'.op = "get_templates" =>
          \A args \in ListArgs :
              GetTemplates(args) =>
                  LET listed == response'.data
                  IN  /\ args.folder_id /= << >> =>
                            \A k \in 1..Len(listed) :
                                listed[k].folder_id = args.folder_id[1]
                      /\ args.favorites = <<true_literal>> =>
                            \A k \in 1..Len(listed) : listed[k].is_favorite
      ]_vars

-----------------------------------------------------------------------------
(* The sanitizers *)

AllIn(s, cs) == \A i \in 1..Len(s) : s[i] \in cs
NoneIn(s, cs) == \A i \in 1..Len(s) : s[i] \notin cs

\* C14: sanitize_filename returns a non-empty text of at most 100 characters
\* with none of < > : " / \ | ? * and no two underscores in a row; a name
\* that is empty or cleans to nothing gives 'untitled', and the name
\* 'file<>:"/\|?*name' gives 'file_name'.
C14_SanitizeFilenameUsable ==
    call.fn = "sanitize_filename" =>
        /\ call.result /= << >>
        /\ Len(call.result) <= 100
        /\ NoneIn(call.result, {"<", ">", ":", "\"", "/", "\\", "|", "?", "*"})
        /\ \A i \in 1..(Len(call.result) - 1) :
              ~(call.result[i] = "_" /\ call.result[i + 1] = "_")
        /\ AllIn(call.arg, {"<", ">", ":", "\"", "/", "\\", "|", "?", "*", "_", " "})
              => call.result = <<"u", "n", "t", "i", "t", "l", "e", "d">>
        /\ call.arg = TestFilename
              => call.result = <<"f", "i", "l", "e", "_", "n", "a", "m", "e">>

C14_Witness ==
    /\ call.fn = "sanitize_filename"
    /\ Len(call.arg) > 100
    /\ Len(call.result) = 100
    /\ ~NoneIn(call.arg, {"<", "?"})

ReservedDevices ==
    { <<"c","o","n">>, <<"p","r","n">>, <<"a","u","x">>, <<"n","u","l">> }
    \cup { <<"c","o","m">> \o <<Digit(k)>> : k \in 1..9 }
    \cup { <<"l","p","t">> \o <<Digit(k)>> : k \in 1..9 }

\* the name without the characters that are cleaned away at its ends
Trimmed(name) ==
    strip(name, {"<", ">", ":", "\"", "/", "\\", "|", "?", "*", "_", " ", "."})

\* C15: sanitize_folder_name returns a non-empty text that neither begins nor
\* ends with '_', space or '.', holds none of < > : " / \ | ? *, and is no
\* reserved device name in any case of letters; where the cleaned name is
\* empty or reserved the result is 'folder_' and the timestamp of the call.
C15_SanitizeFolderNameUsable ==
    call.fn = "sanitize_folder_name" =>
        /\ call.result /= << >>
        /\ call.result[1] \notin {"_", " ", "."}
        /\ call.result[Len(call.result)] \notin {"_", " ", "."}
        /\ NoneIn(call.result, {"<", ">", ":", "\"", "/", "\\", "|", "?", "*"})
        /\ lower(call.result) \notin ReservedDevices
        /\ (Trimmed(call.arg) = << >> \/ lower(Trimmed(call.arg)) \in ReservedDevices)
              => call.result = <<"f","o","l","d","e","r","_">> \o strftime(now)

C15_Witness ==
    /\ call.fn = "sanitize_folder_name"
    /\ call.arg = <<"?", "N", "U", "L", "?">>
    /\ now = 1
    /\ call.result = <<"f","o","l","d","e","r","_">> \o strftime(1)

RECURSIVE Lines(_)
\* the lines of a text, without their line ends
Lines(text) ==
    IF NoneIn(text, {"\n"}) THEN <<text>>
    ELSE LET k == CHOOSE i \in 1..Len(text) :
                      text[i] = "\n" /\ NoneIn(SubSeq(text, 1, i - 1), {"\n"})
         IN  <<SubSeq(text, 1, k - 1)>> \o Lines(SubSeq(text, k + 1, Len(text)))

\* the lines that hold more than spaces, each without the spaces at its ends
Inked(lines) ==
    LET bare == [i \in 1..Len(lines) |-> strip(lines[i], {" ", "\t"})]
    IN  Pick(bare, {i \in 1..Len(bare) : bare[i] /= << >>})

\* a line that begins with 1 to 6 '#' and has no further '#'
IsHeaderLine(line) ==
    /\ Run(line, 1, {"#"}) \in 1..6
    /\ NoneIn(SubSeq(line, Run(line, 1, {"#"}) + 1, Len(line)), {"#"})

\* what a line is to become: a header line its text in upper case, any other
\* line itself
Shouted(line) ==
    IF IsHeaderLine(line)
    THEN upper(lstrip(SubSeq(line, Run(line, 1, {"#"}) + 1, Len(line)), {" ", "\t"}))
    ELSE line

\* a document of header lines and of lines of letters and spaces
HeadersAndPlain(doc) ==
    /\ AllIn(doc, {"#", "a", " ", "\n", "H", "e", "d", "r", "1", "2", "3"})
    /\ \A i \in 1..Len(Lines(doc)) :
          IsHeaderLine(Lines(doc)[i]) \/ NoneIn(Lines(doc)[i], {"#"})

\* C16: markdown_to_text replaces every line that begins with 1 to 6 '#' and
\* optional white space by the rest of that line in upper case and touches no
\* other line; of a document made only of such header lines whose text has no
\* '#', no '#' is left in the output.
C16_HeadersShoutedOthersUntouched ==
    (call.fn = "markdown_to_text" /\ HeadersAndPlain(call.arg)) =>
        /\ Inked(Lines(call.result))
              = Inked([i \in 1..Len(Lines(call.arg)) |-> Shouted(Lines(call.arg)[i])])
        /\ (\A i \in 1..Len(Lines(call.arg)) : IsHeaderLine(Lines(call.arg)[i]))
              => NoneIn(call.result, {"#"})

\* C17: within one line markdown_to_text replaces every span ***x***, **x**,
\* *x*, __x__, _x_ and `x` by x (so '**Bold** and *italic* and `code`' gives
\* 'Bold and italic and code'), and a span whose two markers lie on different
\* lines is left as it is.
C17_SpansOnOneLineOnly ==
    call.fn = "markdown_to_text" =>
        /\ call.arg = FormattingDoc
              => call.result = <<"B","o","l","d"," ","a","n","d"," ","i","t","a","l","i","c",
                                 " ","a","n","d"," ","c","o","d","e">>
        /\ \A m \in SpanMarkers :
              /\ \A x \in { <<"a">>, <<"a", " ", "b">> } :
                    call.arg = m \o x \o m => call.result = x
              /\ call.arg = <<"b", " ">> \o m \o <<"a">> \o m \o <<" ", "c">>
                    => call.result = <<"b", " ", "a", " ", "c">>
              /\ call.arg = m \o <<"a", "\n", "b">> \o m => call.result = call.arg

\* s is the beginning of t
IsPrefix(s, t) == Len(s) <= Len(t) /\ SubSeq(t, 1, Len(s)) = s

\* C18: of a fenced code block both delimiter lines, the opening ``` with its
\* optional language tag and the closing ```, are absent from the output of
\* markdown_to_text, and the content lines between them are in the output as
\* they were in the input.
C18_FencesDeletedContentKept ==
    call.fn = "markdown_to_text" =>
        \A tag \in { << >>, <<"p", "y">> },
           body \in { <<"a">>, <<"a", "\n", "b">>, <<"x", " ", "=", " ", "1">> },
           tail \in { << >>, <<"\n">>, <<"\n", "c">> } :
            call.arg = Fence \o tag \o <<"\n">> \o body \o <<"\n">> \o Fence \o tail
                => /\ NoneIn(call.result, {Backtick})
                   /\ IsPrefix(Lines(body), Lines(call.result))

\* C19: markdown_to_text rewrites every line that begins with '*', '-' or '+'
\* and white space as the bullet, a space and the rest of the line, for each
\* of the three markers and whatever the rest holds, further '*' and '_'
\* included, and leaves ordered list lines with their numbering as they are.
C19_ListLinesBulleted ==
    call.fn = "markdown_to_text" =>
        /\ call.arg = ListsDoc
              => call.result =
                    <<Bullet," ","I","t","e","m"," ","1","\n",Bullet," ","I","t","e","m"," ","2","\n",
                      "1","."," ","F","i","r","s","t","\n","2","."," ","S","e","c","o","n","d">>
        /\ \A m \in {"*", "-", "+"}, w \in {" ", "\t"} :
              /\ \A rest \in { <<"a">>, <<"a", " ", "*", "b">>, <<"a", "_", "b">> } :
                    call.arg = <<m, w>> \o rest => call.result = <<Bullet, " ">> \o rest
              /\ \A rest \in { <<"a", " ", "*", "b", "*">>, <<"a", "_", "b", "_", "c">> } :
                    call.arg = <<m, w>> \o rest => IsPrefix(<<Bullet, " ">>, call.result)
        /\ call.arg \in { <<"1", ".", " ", "a">>, <<"1", "2", ".", " ", "a", " ", "b">>,
                          <<"1", ".", " ", "a", "\n", "2", ".", " ", "b">> }
              => call.result = call.arg

\* C20: markdown_to_text deletes every line that consists of three or more
\* '-', of three or more '*' or of three or more '_' (a horizontal rule): no
\* character of such a line is left in the output.
C20_RulesDeleted ==
    call.fn = "markdown_to_text" =>
        \A c \in {"-", "*", "_"}, n \in 3..5 :
            /\ call.arg = Repeat(c, n) => call.result = << >>
            /\ call.arg = <<"a", "\n">> \o Repeat(c, n) \o <<"\n", "b">>
                  => Inked(Lines(call.result)) = << <<"a">>, <<"b">> >>

\* C21: markdown_to_text is stable under re-application: for every content
\* c, markdown_to_text(markdown_to_text(c)) equals markdown_to_text(c).
C21_MarkdownToTextIdempotent ==
    call.fn = "markdown_to_text" => markdown_to_text(call.result) = call.result

\* s is the end of t
IsSuffix(s, t) == Len(s) <= Len(t) /\ SubSeq(t, Len(t) - Len(s) + 1, Len(t)) = s

\* the first character of a content that is no white space is '#'
BeginsWithHeading(content) ==
    \E i \in 1..Len(content) :
        /\ content[i] = "#"
        /\ \A k \in 1..(i - 1) : content[k] \in Whitespace

\* C22: export_to_markdown returns the front-matter block and then a body
\* that is the content unchanged where the first character of the content
\* that is no white space is '#', and otherwise '# <title>', a blank line and
\* the content; in both cases the raw content ends the export and the line
\* 'title: "<title>"' is in the front-matter.
C22_ExportKeepsContentAndTitle ==
    call.fn = "export_to_markdown" =>
        LET template == call.arg
            front == export_metadata(template, now)
            body == SubSeq(call.result, Len(front) + 1, Len(call.result))
        IN  /\ IsPrefix(front, call.result)
            /\ IsPrefix(<<"-", "-", "-", "\n">>, front)
            /\ IsSuffix(<<"\n", "-", "-", "-", "\n", "\n">>, front)
            /\ Contains(front, <<"\n", "t", "i", "t", "l", "e", ":", " ", "\"">> \o template.title \o <<"\"", "\n">>)
            /\ body = IF BeginsWithHeading(template.content)
                      THEN template.content
                      ELSE <<"#", " ">> \o template.title \o <<"\n", "\n">> \o template.content
            /\ IsSuffix(template.content, call.result)

C22_Witness ==
    /\ call.fn = "export_to_markdown"
    /\ call.arg.content = <<" ", "\n", "#", "a">>
    /\ call.arg.title = <<"T", "e", "s", "t", " ", "T", "e", "m", "p", "l", "a", "t", "e">>
    /\ now = 1
    /\ IsSuffix(<<"e", "x", "p", "o", "r", "t", "e", "d", ":", " ", "2", "0", "2", "6", "-", "0", "1", "-", "0", "1", " ", "0", "0", ":", "0", "0", ":", "0", "1", "\n", "-", "-", "-", "\n", "\n", " ", "\n", "#", "a">>, call.result)

\* the tokens of a content that white space delimits, counted at their ends
Tokens(content) ==
    Cardinality({ i \in 1..Len(content) :
        /\ content[i] \notin {" ", "\n", "\t"}
        /\ (i = Len(content) \/ content[i + 1] \in {" ", "\n", "\t"}) })

\* C23: get_export_stats returns estimated_reading_time = max(1, words div
\* 200), so at least 1, with words the number of tokens that white space
\* delimits and characters the length of the content; for the empty content
\* words, characters and headers are 0 and estimated_reading_time is 1.
C23_ReadingTimeAtLeastOne ==
    call.fn = "get_export_stats" =>
        LET content == call.arg.content
            stats == call.result
        IN  /\ stats.words = Tokens(content)
            /\ stats.characters = Len(content)
            /\ stats.estimated_reading_time >= 1
            /\ stats.estimated_reading_time =
                  (IF stats.words \div 200 >= 1 THEN stats.words \div 200 ELSE 1)
            /\ content = << >>
                  => /\ stats.words = 0
                     /\ stats.characters = 0
                     /\ stats.headers = 0
                     /\ stats.estimated_reading_time = 1

C23_Witness ==
    /\ call.fn = "get_export_stats"
    /\ call.arg.content = WordDoc(400)
    /\ call.result.words = 400
    /\ call.result.characters = 799
    /\ call.result.estimated_reading_time = 2

\* the lines of a content that are unordered list items: '*', '-' or '+' and
\* white space
UnorderedItems(content) ==
    { i \in 1..Len(content) :
        /\ AtLineStart(content, i)
        /\ content[i] \in {"*", "-", "+"}
        /\ i + 1 <= Len(content)
        /\ content[i + 1] \in {" ", "\t", "\n"} }

\* the lines of a content that are ordered list items: digits, '.' and white
\* space
OrderedItems(content) ==
    { i \in 1..Len(content) :
        /\ AtLineStart(content, i)
        /\ LET n == Run(content, i, Digits)
           IN  /\ n >= 1
               /\ HasAt(content, i + n, <<".">>)
               /\ i + n + 1 <= Len(content)
               /\ content[i + n + 1] \in {" ", "\t", "\n"} }

\* C24: in get_export_stats 'lists' is the number of lines that are
\* unordered list items plus the number of lines that are ordered list
\* items, 'bold_text' is the number of **x** spans, and 'italic_text' counts
\* the *x* spans that are no part of a bold span.
C24_ListsAndEmphasisCounted ==
    call.fn = "get_export_stats" =>
        LET content == call.arg.content
            stats == call.result
        IN  /\ stats.lists = Cardinality(UnorderedItems(content))
                               + Cardinality(OrderedItems(content))
            /\ content = <<"*", "*", "a", "*", "*", " ", "b">> => stats.bold_text = 1 /\ stats.italic_text = 0
            /\ content = <<"*", "a", "*", " ", "b">> => stats.bold_text = 0 /\ stats.italic_text = 1
            /\ content = <<"*", "*", "a", "*", "*", " ", "*", "b", "*">> => stats.bold_text = 1 /\ stats.italic_text = 1
            /\ content = <<"*", "*", "a", "*", "*", " ", "*", "*", "b", "*", "*">> => stats.bold_text = 2 /\ stats.italic_text = 0
            /\ content = <<"x", " ", "*", "a", "*", " ", "*", "b", "*">> => stats.bold_text = 0 /\ stats.italic_text = 2

\* C25: the circular-dependency check of update_folder ends with a true or
\* false answer for every stored folder graph and every pair of folder_id and
\* new parent_id, also where the graph holds a parent cycle that does not
\* pass through folder_id: it never recurses until the interpreter stops it,
\* which the request would answer with 500.
C25_CircleCheckAnswers ==
    response.op = "update_folder" => response.code \in {200, 400, 404}

\* template rows j and k resolve to the same directory and the same
\* sanitized title, so to one path
Collide(j, k) == j /= k /\ TargetFile(1, j) = TargetFile(1, k)

\* the row processed last among those written to the path of row k
LastAt(k) ==
    CHOOSE l \in 1..Len(templates) :
        /\ TargetFile(1, l) = TargetFile(1, k)
        /\ \A m \in 1..Len(templates) : TargetFile(1, m) = TargetFile(1, k) => m <= l

\* every template's path holds the content of the row processed last among
\* those written to it, and there are fewer files than templates exactly
\* when two rows collide
LastWinsAndFilesCounted ==
    /\ \A k \in 1..Len(templates) :
          /\ TargetFile(1, k) \in DOMAIN files
          /\ Body(files[TargetFile(1, k)]) = templates[LastAt(k)].content
    /\ Cardinality(DOMAIN files) <= Len(templates)
    /\ Cardinality(DOMAIN files) < Len(templates)
          <=> \E j, k \in 1..Len(templates) : Collide(j, k)

\* the same of the rebuilds that return without raising
ReturnedRebuildLastWins == pc[1] = "done" => LastWinsAndFilesCounted

\* C26: when two templates resolve to the same directory and the same
\* sanitized title, a rebuild writes both to one path and the file holds in
\* the end the content of the template processed last; a rebuild never
\* writes more .md files than there are templates, and writes fewer exactly
\* when there is such a collision.
C26_CollidingTemplatesLastWins == Ended(1) => LastWinsAndFilesCounted

\* the .md files directly under the root templates directory
RootFiles == { p \in DOMAIN files : Len(p) = 1 }

\* C27: after any successful create_template, update_template and
\* delete_template requests without disk errors, from an empty store and an
\* empty root directory, the .md files in the root directory are the files
\* <sanitized title>.md of the stored templates, and each holds the content
\* of a stored template of that title: no file is stale and none is missing.
C27_RootMirrorsStoredTemplates ==
    ~response.warning =>
        /\ RootFiles = { Root \o <<FileName(k, now)>> : k \in 1..Len(templates) }
        /\ \A p \in RootFiles :
              \E k \in 1..Len(templates) :
                  /\ p = Root \o <<FileName(k, now)>>
                  /\ Body(files[p]) = templates[k].content

OneComponent(name) ==
    /\ name /= << >>
    /\ NoneIn(name, {"/", "\\"})
    /\ name /= <<".">>
    /\ name /= <<".", ".">>

\* C29: every directory and file the rebuild creates lies inside the root
\* templates directory: for every folder name and every template title the
\* sanitized path component holds no '/' and no '\' and is never '.' or
\* '..', so no record makes the mirror write outside the root.
C29_ComponentsStayInsideRoot ==
    /\ call.fn = "sanitize_folder_name" => OneComponent(call.result)
    /\ call.fn = "sanitize_template_filename"
          => OneComponent(call.result) /\ OneComponent(call.result \o DotMd)

C29_Witness ==
    /\ call.fn = "sanitize_template_filename"
    /\ call.arg = <<".", ".", "/", "a">>
    /\ call.result = <<"a">>

\* C30: sanitize_filename is idempotent and its result is trimmed: for every
\* input, those of more than 100 characters included, sanitizing the result
\* again gives the result, and the result neither begins nor ends with '_'
\* or a space.
C30_SanitizeFilenameIdempotent ==
    call.fn = "sanitize_filename" =>
        /\ sanitize_filename(call.result) = call.result
        /\ call.result /= << >>
        /\ call.result[1] \notin {"_", " "}
        /\ call.result[Len(call.result)] \notin {"_", " "}

=============================================================================
